---- MODULE Spec2Model ----
(***************************************************************************)
(* The DWARF type materializer of libdrgn/dwarf_info_cache.c as a state    *)
(* machine: the two memo maps and the depth counter of the cache, the type *)
(* descriptors made by the type factory, and the call stack of             *)
(* drgn_type_from_dwarf_internal, one frame per call in progress.          *)
(***************************************************************************)
EXTENDS Naturals, Integers, Sequences, FiniteSets, TLC

VARIABLES
    map,                           \* dicache->map (primary map): a set of entries
    cant_be_incomplete_array_map,  \* dicache->cant_be_incomplete_array_map
    depth,                         \* dicache->depth
    types,                         \* the descriptors the type factory has made, by handle
    stack,                         \* calls of drgn_type_from_dwarf_internal in progress, innermost first
    ret,                           \* what the call that returned last handed to its caller
    holder,                        \* the lazy type under evaluation: <<compound handle, member index>>
    results,                       \* every (DIE, flag, type, qualifiers) a successful call has returned
    dindex,                        \* dicache->dindex: the DIEs the name index yields
    enomem,                        \* how many more allocations of a map entry may fail
    call                           \* the call of a finder or decoder from outside: its arguments, place and result

vars == <<map, cant_be_incomplete_array_map, depth, types, stack, ret, holder,
          results, dindex, enomem, call>>

(***************************************************************************)
(* Bounds and program constants.                                           *)
(***************************************************************************)

\* The depth at which drgn_type_from_dwarf_internal refuses to go on.
MaxDepth == 1000

\* How many insertions into a memo map may fail for lack of memory in one run.
MaxEnomem == 1

(***************************************************************************)
(* The DWARF image.  A DIE is <<unit, index>>; its attributes and children *)
(* are what libdw's accessors return for it.                               *)
(***************************************************************************)

(***************************************************************************)
(* 64-bit words (Dwarf_Word, uint64_t) as four 16-bit limbs, the most      *)
(* significant first, with the arithmetic of the machine.                  *)
(***************************************************************************)
U64(n) == <<0, 0, 0, n>>

UINT64_MAX == <<65535, 65535, 65535, 65535>>

\* UINT64_MAX - 1
UINT64_MAX_1 == <<65535, 65535, 65535, 65534>>

\* x + y in uint64_t: the sum modulo 2^64 and the carry out of bit 63.
Add64(x, y) ==
    LET s4 == x[4] + y[4]
        s3 == x[3] + y[3] + (s4 \div 65536)
        s2 == x[2] + y[2] + (s3 \div 65536)
        s1 == x[1] + y[1] + (s2 \div 65536)
    IN  [sum |-> <<s1 % 65536, s2 % 65536, s3 % 65536, s4 % 65536>>,
         carry |-> s1 \div 65536]

\* x - y in uint64_t
Sub64(x, y) ==
    Add64(Add64(x, [i \in 1..4 |-> 65535 - y[i]]).sum, U64(1)).sum

\* 8 * x in uint64_t
Mul8(x) ==
    LET twice(y) == Add64(y, y).sum
    IN  twice(twice(twice(x)))

\* x < y in uint64_t
Lt64(x, y) ==
    \E i \in 1..4 : x[i] < y[i] /\ \A j \in 1..(i - 1) : x[j] = y[j]

NoDie == <<"none", 0>>

\* An attribute of class constant: its form and the word it holds, a
\* negative number of DW_FORM_sdata as its two's complement.
Attr(form, word) == [form |-> form, word |-> word]

NoAttr == Attr("absent", U64(0))

\* A DW_TAG_subrange_type DIE: its DW_AT_upper_bound and its DW_AT_count.
Subrange(upper_bound, count) == [upper_bound |-> upper_bound, count |-> count]

\* The subrange with the one attribute `attr`, or with none.
Sub(attr, form, word) ==
    CASE attr = "upper_bound" -> Subrange(Attr(form, U64(word)), NoAttr)
      [] attr = "count" -> Subrange(NoAttr, Attr(form, U64(word)))
      [] OTHER -> Subrange(NoAttr, NoAttr)

\* A child DIE of a compound or of a function: its tag, DW_AT_name, DW_AT_type
\* and, for a DW_TAG_member, its DW_AT_bit_offset and DW_AT_byte_size.
Member(name, type) ==
    [tag |-> "member", name |-> name, type |-> type, bit_offset |-> NoAttr,
     byte_size |-> NoAttr]

\* A bit field of the old encoding: DW_AT_bit_offset, and DW_AT_byte_size
\* unless byte_size is 0.
BitField(name, type, bit_offset, byte_size) ==
    [Member(name, type) EXCEPT
        !.bit_offset = Attr("udata", U64(bit_offset)),
        !.byte_size = IF byte_size = 0 THEN NoAttr
                      ELSE Attr("udata", U64(byte_size))]

\* A child with another tag: DW_TAG_formal_parameter,
\* DW_TAG_unspecified_parameters, or one the dispatchers skip.
Child(tag, name, type) == [Member(name, type) EXCEPT !.tag = tag]

Info(tag, name, type, byte_size, subranges, members) ==
    [tag |-> tag, name |-> name, type |-> type, byte_size |-> byte_size,
     subranges |-> subranges, members |-> members, declaration |-> FALSE]

\* A DIE with DW_AT_declaration.
Declaration(tag, name) ==
    [Info(tag, name, NoDie, -1, <<>>, <<>>) EXCEPT !.declaration = TRUE]

DieInt      == <<"int", 0>>        \* int
DieArr      == <<"arr", 0>>        \* int []
DieTd       == <<"td", 0>>         \* typedef int T[]
DieConstArr == <<"carr", 0>>       \* const int []
DieLast     == <<"s_last", 0>>     \* struct s { int n; int data[]; }
DieFirst    == <<"s_first", 0>>    \* struct s2 { int data[]; T t; const int c[]; int n; }
DieOnly     == <<"s_only", 0>>     \* struct s3 { int data[]; }
DieUnion    == <<"u", 0>>          \* union u { int n; int data[]; }
DieArrArr   == <<"arrarr", 0>>     \* int [2][] with element type int []
DieNode     == <<"node", 0>>       \* struct node { struct node *next; }
DiePtr      == <<"ptr", 0>>        \* struct node *
DieNodeT    == <<"node_t", 0>>     \* typedef struct node node_t
DieBadTag   == <<"badtag", 0>>     \* a DIE whose tag is no type tag
DieTdBad    == <<"td_bad", 0>>     \* typedef of DieBadTag
DieArrVoid  == <<"arr_void", 0>>   \* an array DIE without DW_AT_type
DieBadLang  == <<"badlang", 0>>    \* a base type in a unit whose language lookup fails
DieV        == <<"v", 0>>          \* volatile int
DieCV       == <<"cv", 0>>         \* const (volatile int)
DieC        == <<"c", 0>>          \* const int
DieVC       == <<"vc", 0>>         \* volatile (const int)
DieCC       == <<"cc", 0>>         \* const (const int)
DieA        == <<"a", 0>>          \* _Atomic (int [])
DieRA       == <<"ra", 0>>         \* restrict (_Atomic (int []))
DieCVoid    == <<"cvoid", 0>>      \* const void
DieDeclOne  == <<"decl_one", 0>>   \* struct one;
DieDefOne   == <<"def_one", 0>>    \* struct one { int n; }
DieDeclTwo  == <<"decl_two", 0>>   \* struct two;
DieDefTwoA  == <<"def_two", 1>>    \* struct two { int n; }  in one unit
DieDefTwoB  == <<"def_two", 2>>    \* struct two { int n; }  in another unit
DieDeclNone == <<"decl_none", 0>>  \* struct nowhere;
DieDeclUnion == <<"decl_u", 0>>    \* union one;  (the index has struct one only)
DieDeclEnum == <<"decl_e", 0>>     \* enum e;
DieDefEnum  == <<"def_e", 0>>      \* enum e { ... } without DW_AT_type
DieDeclBad  == <<"decl_bad", 0>>   \* struct bad;
DieDefBad   == <<"def_bad", 0>>    \* struct bad { ... } without DW_AT_byte_size
DieDeclIerr == <<"decl_ierr", 0>>  \* struct ierr;  (the index search fails)
DieFIntA    == <<"fint", 1>>       \* int, 4 bytes, in a.c
DieFIntB    == <<"fint", 2>>       \* int, 8 bytes, in b.c
DieRealF    == <<"real", 1>>       \* base type "real" of DW_ATE_float, in a.c
DieRealB    == <<"real", 2>>       \* base type "real" of DW_ATE_boolean, in a.c
DieRealI    == <<"real", 3>>       \* base type "real" of DW_ATE_unsigned, in b.c
DieCplx     == <<"cplx", 1>>       \* base type "cplx" of DW_ATE_complex_float over DieRealF
DieOddBad   == <<"odd", 1>>        \* base type "odd" of an unknown encoding, in a.c
DieOddInt   == <<"odd", 2>>        \* base type "odd" of DW_ATE_signed, in b.c
DieS8       == <<"s8", 0>>         \* signed char
DieArrEmpty == <<"arr_empty", 0>>  \* int [] = {}: DW_AT_upper_bound (sdata) -1
DieArrHuge  == <<"arr_huge", 0>>   \* int [2^64 - 1]: DW_AT_upper_bound 2^64 - 2
DieArrOver  == <<"arr_over", 0>>   \* DW_AT_upper_bound 2^64 - 1 and DW_AT_count 2
DieU16      == <<"u16", 0>>        \* unsigned short
DieTdA      == <<"cyc", 1>>        \* typedef b a, with typedef a b
DieTdB      == <<"cyc", 2>>
DiePtrSelf  == <<"cyc", 3>>        \* a pointer to a const of the pointer itself
DieCPtr     == <<"cyc", 4>>
DieArrSelf  == <<"cyc", 5>>        \* an array whose element type is the array
DieBits     == <<"bits", 1>>       \* struct bits { int n; struct bits f : 3; }
DieFlags    == <<"flags", 1>>      \* struct flags { int a : 3; int b : 5; int c; int d : 1; }
DieFlagsBE  == <<"flags", 2>>      \* the same in a big-endian unit
DieFlagsTd  == <<"flags", 3>>      \* struct { int n; T t : 1; } with typedef int T[]
DieFn       == <<"fn", 1>>         \* int (int, int [], ...)
DieFnVoid   == <<"fn", 2>>         \* a subprogram void (void)
DieFnOrder  == <<"fn", 3>>         \* a formal parameter after the unspecified ones
DieFnTwice  == <<"fn", 4>>         \* unspecified parameters twice
DieFnSkip   == <<"fn", 5>>         \* int (int) with a child of another tag
DieFnNoType == <<"fn", 6>>         \* a formal parameter without DW_AT_type
DieFnSelf   == <<"fn", 7>>         \* a function whose parameter is the function
DieFnBadRet == <<"fn", 8>>         \* a function returning a DIE with no type tag

MainDies ==
    {DieInt, DieArr, DieTd, DieConstArr, DieLast, DieFirst, DieOnly, DieUnion,
     DieArrArr, DieNode, DiePtr, DieNodeT, DieBadTag, DieTdBad, DieArrVoid,
     DieBadLang}

MainInfo(d) ==
    CASE d = DieInt      -> Info("base_type", "int", NoDie, 4, <<>>, <<>>)
      [] d = DieArr      -> Info("array_type", "", DieInt, -1,
                                 <<Sub("none", "", 0)>>, <<>>)
      [] d = DieTd       -> Info("typedef", "T", DieArr, -1, <<>>, <<>>)
      [] d = DieConstArr -> Info("const_type", "", DieArr, -1, <<>>, <<>>)
      [] d = DieLast     -> Info("structure_type", "s", NoDie, 4, <<>>,
                                 <<Member("n", DieInt), Member("data", DieArr)>>)
      [] d = DieFirst    -> Info("structure_type", "s2", NoDie, 4, <<>>,
                                 <<Member("data", DieArr), Member("t", DieTd),
                                   Member("c", DieConstArr), Member("n", DieInt)>>)
      [] d = DieOnly     -> Info("structure_type", "s3", NoDie, 0, <<>>,
                                 <<Member("data", DieArr)>>)
      [] d = DieUnion    -> Info("union_type", "u", NoDie, 4, <<>>,
                                 <<Member("n", DieInt), Member("data", DieArr)>>)
      [] d = DieArrArr   -> Info("array_type", "", DieArr, -1,
                                 <<Sub("upper_bound", "udata", 1)>>, <<>>)
      [] d = DieNode     -> Info("structure_type", "node", NoDie, 8, <<>>,
                                 <<Member("next", DiePtr)>>)
      [] d = DiePtr      -> Info("pointer_type", "", DieNode, -1, <<>>, <<>>)
      [] d = DieNodeT    -> Info("typedef", "node_t", DieNode, -1, <<>>, <<>>)
      [] d = DieBadTag   -> Info("label", "", NoDie, -1, <<>>, <<>>)
      [] d = DieTdBad    -> Info("typedef", "bad_t", DieBadTag, -1, <<>>, <<>>)
      [] d = DieArrVoid  -> Info("array_type", "", NoDie, -1,
                                 <<Sub("count", "udata", 2)>>, <<>>)
      [] d = DieBadLang  -> Info("base_type", "int", NoDie, 4, <<>>, <<>>)
      [] d = DieV        -> Info("volatile_type", "", DieInt, -1, <<>>, <<>>)
      [] d = DieCV       -> Info("const_type", "", DieV, -1, <<>>, <<>>)
      [] d = DieC        -> Info("const_type", "", DieInt, -1, <<>>, <<>>)
      [] d = DieVC       -> Info("volatile_type", "", DieC, -1, <<>>, <<>>)
      [] d = DieCC       -> Info("const_type", "", DieC, -1, <<>>, <<>>)
      [] d = DieA        -> Info("atomic_type", "", DieArr, -1, <<>>, <<>>)
      [] d = DieRA       -> Info("restrict_type", "", DieA, -1, <<>>, <<>>)
      [] d = DieCVoid    -> Info("const_type", "", NoDie, -1, <<>>, <<>>)
      [] d = DieDeclOne  -> Declaration("structure_type", "one")
      [] d = DieDefOne   -> Info("structure_type", "one", NoDie, 4, <<>>,
                                 <<Member("n", DieInt)>>)
      [] d = DieDeclTwo  -> Declaration("structure_type", "two")
      [] d = DieDefTwoA  -> Info("structure_type", "two", NoDie, 4, <<>>,
                                 <<Member("n", DieInt)>>)
      [] d = DieDefTwoB  -> Info("structure_type", "two", NoDie, 4, <<>>,
                                 <<Member("n", DieInt)>>)
      [] d = DieDeclNone -> Declaration("structure_type", "nowhere")
      [] d = DieDeclUnion -> Declaration("union_type", "one")
      [] d = DieDeclEnum -> Declaration("enumeration_type", "e")
      [] d = DieDefEnum  -> Info("enumeration_type", "e", NoDie, 4, <<>>, <<>>)
      [] d = DieDeclBad  -> Declaration("structure_type", "bad")
      [] d = DieDefBad   -> Info("structure_type", "bad", NoDie, -1, <<>>, <<>>)
      [] d = DieDeclIerr -> Declaration("structure_type", "ierr")
      [] d = DieFIntA    -> Info("base_type", "int", NoDie, 4, <<>>, <<>>)
      [] d = DieFIntB    -> Info("base_type", "int", NoDie, 8, <<>>, <<>>)
      [] d = DieRealF    -> Info("base_type", "real", NoDie, 8, <<>>, <<>>)
      [] d = DieRealB    -> Info("base_type", "real", NoDie, 1, <<>>, <<>>)
      [] d = DieRealI    -> Info("base_type", "real", NoDie, 4, <<>>, <<>>)
      [] d = DieCplx     -> Info("base_type", "cplx", DieRealF, 16, <<>>, <<>>)
      [] d = DieOddBad   -> Info("base_type", "odd", NoDie, 4, <<>>, <<>>)
      [] d = DieOddInt   -> Info("base_type", "odd", NoDie, 4, <<>>, <<>>)
      [] d = DieArrEmpty -> Info("array_type", "", DieInt, -1,
                                 <<Subrange(Attr("sdata", UINT64_MAX), NoAttr)>>,
                                 <<>>)
      [] d = DieArrHuge  -> Info("array_type", "", DieInt, -1,
                                 <<Subrange(Attr("data8", UINT64_MAX_1), NoAttr)>>,
                                 <<>>)
      [] d = DieArrOver  -> Info("array_type", "", DieInt, -1,
                                 <<Subrange(Attr("data8", UINT64_MAX),
                                            Attr("udata", U64(2)))>>, <<>>)
      [] d = DieS8       -> Info("base_type", "signed char", NoDie, 1, <<>>, <<>>)
      [] d = DieU16      -> Info("base_type", "unsigned short", NoDie, 2, <<>>, <<>>)
      [] d = DieTdA      -> Info("typedef", "a", DieTdB, -1, <<>>, <<>>)
      [] d = DieTdB      -> Info("typedef", "b", DieTdA, -1, <<>>, <<>>)
      [] d = DiePtrSelf  -> Info("pointer_type", "", DieCPtr, -1, <<>>, <<>>)
      [] d = DieCPtr     -> Info("const_type", "", DiePtrSelf, -1, <<>>, <<>>)
      [] d = DieArrSelf  -> Info("array_type", "", DieArrSelf, -1,
                                 <<Sub("count", "udata", 2)>>, <<>>)
      [] d = DieBits     -> Info("structure_type", "bits", NoDie, 8, <<>>,
                                 <<Member("n", DieInt),
                                   BitField("f", DieBits, 29, 0)>>)
      [] d = DieFlags    -> Info("structure_type", "flags", NoDie, 8, <<>>,
                                 <<BitField("a", DieInt, 29, 0),
                                   BitField("b", DieInt, 24, 4),
                                   Member("c", DieInt),
                                   BitField("d", DieS8, 7, 0)>>)
      [] d = DieFlagsBE  -> Info("structure_type", "flags", NoDie, 8, <<>>,
                                 <<BitField("a", DieInt, 29, 0),
                                   BitField("b", DieInt, 24, 4),
                                   Member("c", DieInt),
                                   BitField("d", DieS8, 7, 0)>>)
      [] d = DieFlagsTd  -> Info("structure_type", "", NoDie, 8, <<>>,
                                 <<Member("n", DieInt),
                                   BitField("t", DieTd, 31, 0)>>)
      [] d = DieFn       -> Info("subroutine_type", "", DieInt, -1, <<>>,
                                 <<Child("formal_parameter", "n", DieInt),
                                   Child("formal_parameter", "", DieArr),
                                   Child("unspecified_parameters", "", NoDie)>>)
      [] d = DieFnVoid   -> Info("subprogram", "f", NoDie, -1, <<>>, <<>>)
      [] d = DieFnOrder  -> Info("subroutine_type", "", DieInt, -1, <<>>,
                                 <<Child("formal_parameter", "n", DieInt),
                                   Child("unspecified_parameters", "", NoDie),
                                   Child("formal_parameter", "m", DieInt)>>)
      [] d = DieFnTwice  -> Info("subprogram", "g", DieInt, -1, <<>>,
                                 <<Child("unspecified_parameters", "", NoDie),
                                   Child("unspecified_parameters", "", NoDie)>>)
      [] d = DieFnSkip   -> Info("subprogram", "h", DieInt, -1, <<>>,
                                 <<Child("lexical_block", "", NoDie),
                                   Child("formal_parameter", "n", DieInt),
                                   Child("variable", "v", DieInt)>>)
      [] d = DieFnNoType -> Info("subroutine_type", "", DieInt, -1, <<>>,
                                 <<Child("formal_parameter", "n", NoDie),
                                   Child("unspecified_parameters", "", NoDie)>>)
      [] d = DieFnSelf   -> Info("subroutine_type", "", NoDie, -1, <<>>,
                                 <<Child("formal_parameter", "self", DieFnSelf)>>)
      [] d = DieFnBadRet -> Info("subroutine_type", "", DieBadTag, -1, <<>>,
                                 <<Child("formal_parameter", "n", DieInt)>>)

\* Chains of typedef DIEs, each aliasing the next.  Chain "X" has MaxDepth + 1
\* typedefs, the last without DW_AT_type (void); chain "Y" has MaxDepth - 1
\* typedefs, the last aliasing the base type <<"Y", MaxDepth>>.
XLen == MaxDepth + 1
YLen == MaxDepth - 1

XDie(i) == <<"X", i>>
YDie(i) == <<"Y", i>>

ChainInfo(d) ==
    IF d[1] = "X"
    THEN Info("typedef", "x", IF d[2] < XLen THEN XDie(d[2] + 1) ELSE NoDie,
              -1, <<>>, <<>>)
    ELSE IF d[2] <= YLen
         THEN Info("typedef", "y", YDie(d[2] + 1), -1, <<>>, <<>>)
         ELSE Info("base_type", "int", NoDie, 4, <<>>, <<>>)

DieInfo(d) == IF d[1] \in {"X", "Y"} THEN ChainInfo(d) ELSE MainInfo(d)

dwarf_tag(d) == DieInfo(d).tag
dwarf_diename(d) == DieInfo(d).name
dwarf_bytesize(d) == DieInfo(d).byte_size

\* DW_AT_encoding of a base type DIE.
dwarf_encoding(d) ==
    CASE d = DieRealF  -> "float"
      [] d = DieRealB  -> "boolean"
      [] d = DieRealI  -> "unsigned"
      [] d = DieU16    -> "unsigned"
      [] d = DieCplx   -> "complex_float"
      [] d = DieOddBad -> "lo_user"
      [] OTHER         -> "signed"

\* The file of the unit that holds the DIE.
DieFile(d) == IF d \in {DieFIntB, DieRealI, DieOddInt, DieDefTwoB} THEN "b.c" ELSE "a.c"

\* die_matches_filename(): no filename asked for (""), or the one of the DIE.
die_matches_filename(d, filename) == filename = "" \/ DieFile(d) = filename

\* dwarf_die_is_little_endian(die, false): the byte order of the ELF file
\* that holds the DIE.
DieLittleEndian(d) == d # DieFlagsBE

\* drgn_language_from_die(): the language of the DIE's unit, or an error.
drgn_language_from_die(d) == IF d = DieBadLang THEN "other" ELSE "ok"

\* dwarf_flag(die, DW_AT_declaration)
dwarf_flag_declaration(d) == DieInfo(d).declaration

\* dwarf_type(): 1 when DW_AT_type is absent, else 0 and the DIE it refers to.
dwarf_type(d) == DieInfo(d).type

(***************************************************************************)
(* The name index (dwarf_index.c): the DIEs it holds, in iteration order.  *)
(* It holds no DIE with DW_AT_declaration.  An iterator yields the DIEs of *)
(* the tag and name asked for, then the stop sentinel; a search may fail.  *)
(***************************************************************************)
IndexedDies ==
    <<DieDefOne, DieDefTwoA, DieDefTwoB, DieDefEnum, DieDefBad, DieFIntA,
      DieFIntB, DieRealF, DieRealB, DieRealI, DieCplx, DieOddBad, DieOddInt>>

drgn_dwarf_index_iterator(tag, name) ==
    SelectSeq(IndexedDies,
              LAMBDA d : dwarf_tag(d) = tag /\ dwarf_diename(d) = name)

drgn_dwarf_index_iterator_error(tag, name) ==
    IF name = "ierr" THEN "other" ELSE "ok"

(***************************************************************************)
(* The type factory (type.c).  A descriptor is known by its handle; the    *)
(* factory returns the handle of an existing descriptor with the same      *)
(* fields for the scalar and derived kinds, and makes a new descriptor for *)
(* every compound.  A new handle is <<unit, index, j>> of the DIE under    *)
(* dispatch with the least j not in use: addresses are opaque, so only     *)
(* their equality is observable.                                           *)
(***************************************************************************)

NoType == <<"none", 0, 0>>
VoidType == <<"void", 0, 0>>

Descriptor(kind, name, size, length, is_complete, type, qualifiers, members) ==
    [kind |-> kind, name |-> name, size |-> size, length |-> length,
     is_complete |-> is_complete, type |-> type, qualifiers |-> qualifiers,
     members |-> members, is_signed |-> FALSE, is_variadic |-> FALSE]

VoidDescriptor == Descriptor("void", "", 0, U64(0), TRUE, NoType, {}, <<>>)

\* `types` is the set of the descriptors made, each with its handle.
TypeRec(handle, descriptor) == [handle |-> handle, descriptor |-> descriptor]

Handles(T) == {t.handle : t \in T}

\* The descriptor behind a handle.
TypeOf(T, h) == (CHOOSE t \in T : t.handle = h).descriptor

NewHandle(T, site) ==
    LET used == Handles(T)
        j == CHOOSE j \in 0..Cardinality(used) :
                 /\ <<site[1], site[2], j>> \notin used
                 /\ \A k \in 0..(j - 1) : <<site[1], site[2], k>> \in used
    IN  <<site[1], site[2], j>>

\* The handle the factory returns for `key`, and the descriptors afterwards.
find_or_create_type(T, key, site) ==
    LET same == {t \in T : t.descriptor = key}
    IN  IF same # {}
        THEN [type |-> (CHOOSE t \in same : TRUE).handle, types |-> T]
        ELSE LET n == NewHandle(T, site)
             IN  [type |-> n, types |-> T \cup {TypeRec(n, key)}]

create_type(T, key, site) ==
    LET n == NewHandle(T, site)
    IN  [type |-> n, types |-> T \cup {TypeRec(n, key)}]

drgn_int_type_create(T, name, size, is_signed, site) ==
    find_or_create_type(T, [Descriptor("int", name, size, U64(0), TRUE, NoType, {}, <<>>)
                                EXCEPT !.is_signed = is_signed], site)

drgn_bool_type_create(T, name, size, site) ==
    find_or_create_type(T, Descriptor("bool", name, size, U64(0), TRUE, NoType, {}, <<>>), site)

drgn_float_type_create(T, name, size, site) ==
    find_or_create_type(T, Descriptor("float", name, size, U64(0), TRUE, NoType, {}, <<>>), site)

drgn_complex_type_create(T, name, size, real_type, site) ==
    find_or_create_type(T, Descriptor("complex", name, size, U64(0), TRUE, real_type, {}, <<>>),
                        site)

drgn_typedef_type_create(T, name, aliased_type, aliased_qualifiers, site) ==
    find_or_create_type(T, Descriptor("typedef", name, 0, U64(0), TRUE,
                                      aliased_type, aliased_qualifiers, <<>>), site)

drgn_pointer_type_create(T, referenced_type, referenced_qualifiers, site) ==
    find_or_create_type(T, Descriptor("pointer", "", 0, U64(0), TRUE,
                                      referenced_type, referenced_qualifiers, <<>>), site)

drgn_array_type_create(T, element_type, element_qualifiers, length, site) ==
    find_or_create_type(T, Descriptor("array", "", 0, length, TRUE,
                                      element_type, element_qualifiers, <<>>), site)

drgn_incomplete_array_type_create(T, element_type, element_qualifiers, site) ==
    find_or_create_type(T, Descriptor("array", "", 0, U64(0), FALSE,
                                      element_type, element_qualifiers, <<>>), site)

drgn_compound_type_create(T, kind, tag, size, members, site) ==
    create_type(T, Descriptor(kind, tag, size, U64(0), TRUE, NoType, {}, members), site)

drgn_incomplete_compound_type_create(T, kind, tag, site) ==
    create_type(T, Descriptor(kind, tag, 0, U64(0), FALSE, NoType, {}, <<>>), site)

drgn_enum_type_create(T, tag, compatible_type, site) ==
    create_type(T, Descriptor("enum", tag, 0, U64(0), TRUE, compatible_type, {}, <<>>),
                site)

drgn_incomplete_enum_type_create(T, tag, site) ==
    create_type(T, Descriptor("enum", tag, 0, U64(0), FALSE, NoType, {}, <<>>), site)

\* A function type: its return type, its parameters and whether it is
\* variadic; a new descriptor every time, as for a compound.
drgn_function_type_create(T, parameters, return_type, return_qualifiers, is_variadic, site) ==
    create_type(T, [Descriptor("function", "", 0, U64(0), TRUE, return_type,
                               return_qualifiers, parameters)
                       EXCEPT !.is_variadic = is_variadic], site)

\* A lazy type: a thunk {DIE, can_be_incomplete_array}, or the evaluated type.
LazyThunk(name, die, can_be_incomplete_array) ==
    [name |-> name, thunk |-> TRUE, die |-> die,
     can_be_incomplete_array |-> can_be_incomplete_array,
     type |-> NoType, qualifiers |-> {}]

LazyEvaluated(lazy, type, qualifiers) ==
    [lazy EXCEPT !.thunk = FALSE, !.type = type, !.qualifiers = qualifiers]

(***************************************************************************)
(* The memo maps (hash_table.h).  A map is the set of its entries; an      *)
(* insertion after a search adds the entry without looking for its key,    *)
(* and a search for a key the map holds twice finds either entry.          *)
(***************************************************************************)

Entry(key, type, qualifiers, is_incomplete_array) ==
    [key |-> key, type |-> type, qualifiers |-> qualifiers,
     is_incomplete_array |-> is_incomplete_array]

dwarf_type_map_search(m, key) == {e \in m : e.key = key}

dwarf_type_map_insert_searched(m, entry) == m \cup {entry}

(***************************************************************************)
(* Calls of drgn_type_from_dwarf_internal.  A frame is one call in         *)
(* progress: pc is "enter" before the depth check and the memo lookup and  *)
(* "dispatch" once the depth is bumped; `called` says that the dispatcher  *)
(* has called drgn_type_from_dwarf_child and waits for its return.  For a  *)
(* compound, n is the DW_TAG_member child whose type parse_member_offset   *)
(* is evaluating (0 when none is), and `lazy` the types evaluated so far.  *)
(***************************************************************************)

Frame(die, can_be_incomplete_array, has_ret) ==
    [die |-> die, can_be_incomplete_array |-> can_be_incomplete_array,
     has_ret |-> has_ret, pc |-> "enter", called |-> FALSE,
     is_incomplete_array |-> FALSE,
     n |-> 0, lazy |-> <<>>,
     depth0 |-> depth,
     cold |-> map = {} /\ cant_be_incomplete_array_map = {},
     pre |-> dwarf_type_map_search(map, die),
     cpre |-> dwarf_type_map_search(cant_be_incomplete_array_map, die)]

\* What a call hands back: err is "ok" or the error's code; `written` says
\* whether *is_incomplete_array_ret was assigned; `hit` whether a memo map
\* answered the call.
Returned(f, err, type, qualifiers, written, is_incomplete_array, hit) ==
    [die |-> f.die, can_be_incomplete_array |-> f.can_be_incomplete_array,
     has_ret |-> f.has_ret, err |-> err, type |-> type,
     qualifiers |-> qualifiers, written |-> written,
     is_incomplete_array |-> is_incomplete_array, hit |-> hit,
     pre |-> f.pre, cpre |-> f.cpre, depth0 |-> f.depth0, cold |-> f.cold]

NoRet ==
    [die |-> NoDie, can_be_incomplete_array |-> FALSE, has_ret |-> FALSE,
     err |-> "none", type |-> NoType, qualifiers |-> {}, written |-> FALSE,
     is_incomplete_array |-> FALSE, hit |-> FALSE, pre |-> {}, cpre |-> {},
     depth0 |-> 0, cold |-> FALSE]

NoHolder == <<NoType, 0>>

\* The outcome of a dispatcher: an error or a qualified type, the value left
\* in entry.value.is_incomplete_array, and the factory's descriptors.
Out(err, type, qualifiers, is_incomplete_array, T) ==
    [err |-> err, type |-> type, qualifiers |-> qualifiers,
     is_incomplete_array |-> is_incomplete_array, types |-> T]

Failed(err, f, T) == Out(err, NoType, {}, f.is_incomplete_array, T)

\* Faulty variants of the depth test: one frame too late, one too early.
DepthExceededLate(d) == d > MaxDepth

DepthExceededEarly(d) == d >= MaxDepth - 1

\* Faulty variant: the limit is twice as deep.
DepthExceededTwice(d) == d >= 2 * MaxDepth

\* if (dicache->depth >= 1000)
DepthExceeded(d) == d >= MaxDepth

\* The entries the lookup at the head of drgn_type_from_dwarf_internal may
\* return for `die`: an entry of the primary map, unless the caller forbids
\* an incomplete array and that entry is one, when the restricted map is
\* searched instead.
MemoHits(die, can_be_incomplete_array) ==
    LET primary == dwarf_type_map_search(map, die)
        restricted == dwarf_type_map_search(cant_be_incomplete_array_map, die)
    IN  {e \in primary : can_be_incomplete_array \/ ~e.is_incomplete_array}
        \cup (IF \E e \in primary :
                    ~can_be_incomplete_array /\ e.is_incomplete_array
              THEN restricted ELSE {})

\* Faulty variant of the lookup: an entry in the map is overlooked.
MemoMissAlways(die, can_be_incomplete_array) == TRUE

\* The lookup may find nothing: no primary entry, or a primary entry of an
\* incomplete array that the caller forbids and no restricted entry.
MemoMiss(die, can_be_incomplete_array) ==
    LET primary == dwarf_type_map_search(map, die)
        restricted == dwarf_type_map_search(cant_be_incomplete_array_map, die)
    IN  \/ primary = {}
        \/ /\ \E e \in primary :
                  ~can_be_incomplete_array /\ e.is_incomplete_array
           /\ restricted = {}

\* subrange_length(): the dimension a DW_TAG_subrange_type child encodes.
Dimension(err, is_complete, length) ==
    [err |-> err, is_complete |-> is_complete, length |-> length]

\* dwarf_formudata() of an attribute that holds a word.
dwarf_formudata_word(attr) ==
    IF attr.form \in {"udata", "sdata", "data8"}
    THEN [err |-> "ok", word |-> attr.word]
    ELSE [err |-> "other", word |-> U64(0)]

\* Faulty variant: no upper bound is refused.
UpperBoundTooLargeNever(word) == FALSE

\* if (word >= UINT64_MAX)
UpperBoundTooLarge(word) == ~Lt64(word, UINT64_MAX)

subrange_length(sub) ==
    LET is_upper_bound == sub.upper_bound.form # "absent"
        attr == IF is_upper_bound THEN sub.upper_bound ELSE sub.count
        w == dwarf_formudata_word(attr)
    IN  IF attr.form = "absent"
        THEN Dimension("ok", FALSE, U64(0))
        ELSE IF w.err # "ok"
        THEN Dimension("other", FALSE, U64(0))
        ELSE IF is_upper_bound /\ attr.form = "sdata" /\ w.word = UINT64_MAX
        THEN Dimension("ok", TRUE, U64(0))
        ELSE IF is_upper_bound
        THEN IF UpperBoundTooLarge(w.word)
             THEN Dimension("overflow", FALSE, U64(0))
             ELSE Dimension("ok", TRUE, Add64(w.word, U64(1)).sum)
        ELSE IF Lt64(UINT64_MAX, w.word)
        THEN Dimension("overflow", FALSE, U64(0))
        ELSE Dimension("ok", TRUE, w.word)

\* The dimensions of an array DIE, outermost first; one incomplete dimension
\* when the DIE has no DW_TAG_subrange_type child.
Dimensions(die) ==
    LET subs == DieInfo(die).subranges
    IN  IF Len(subs) = 0
        THEN <<Dimension("ok", FALSE, U64(0))>>
        ELSE [i \in 1..Len(subs) |-> subrange_length(subs[i])]

\* The error of the first DW_TAG_subrange_type child that has one.
DimensionsError(die) ==
    LET dims == Dimensions(die)
        bad == {i \in 1..Len(dims) : dims[i].err # "ok"}
    IN  IF bad = {} THEN "ok"
        ELSE dims[CHOOSE i \in bad : \A j \in bad : i <= j].err

QualifierTags == {"const_type", "restrict_type", "volatile_type", "atomic_type"}

QualifierOf(tag) ==
    CASE tag = "const_type" -> "const"
      [] tag = "restrict_type" -> "restrict"
      [] tag = "volatile_type" -> "volatile"
      [] tag = "atomic_type" -> "atomic"

CompoundTags == {"structure_type", "union_type", "class_type"}

\* Faulty variant of the search: the first definition is taken though the
\* index holds another.
FindCompleteFirst(tag, name) ==
    LET it == drgn_dwarf_index_iterator(tag, name)
    IN  IF Len(it) = 0 THEN [err |-> "stop", die |-> NoDie]
        ELSE [err |-> "ok", die |-> it[1]]

\* drgn_dwarf_info_cache_find_complete() up to its call of
\* drgn_type_from_dwarf: the one definition the index holds, the stop
\* sentinel when it holds none or more than one, or the iterator's error.
drgn_dwarf_info_cache_find_complete(tag, name) ==
    LET it == drgn_dwarf_index_iterator(tag, name)
        err == drgn_dwarf_index_iterator_error(tag, name)
    IN  IF err # "ok" THEN [err |-> err, die |-> NoDie]
        ELSE IF Len(it) = 0 THEN [err |-> "stop", die |-> NoDie]
        ELSE IF Len(it) > 1 THEN [err |-> "stop", die |-> NoDie]
        ELSE [err |-> "ok", die |-> it[1]]

\* if (declaration && tag)
SearchesComplete(die) ==
    dwarf_flag_declaration(die) /\ dwarf_diename(die) # ""

\* The DW_TAG_member children of a compound DIE, in order.
MemberChildren(die) ==
    SelectSeq(DieInfo(die).members, LAMBDA c : c.tag = "member")

\* parse_member(): the can_be_incomplete_array of member i, false for every
\* member but the last, which may be a flexible array member of a structure
\* that has a member before it.
MemberCanBeIncompleteArray(die, kind, i) ==
    i = Len(MemberChildren(die)) /\ kind # "union" /\ i - 1 > 0

\* parse_member() and parse_member_offset() up to the size of the member:
\* the error of a member without DW_AT_type or with an attribute that holds
\* no number.
MemberError(m, little_endian) ==
    IF m.type = NoDie THEN "other"
    ELSE IF m.bit_offset.form = "absent" THEN "ok"
    ELSE IF dwarf_formudata_word(m.bit_offset).err # "ok" THEN "other"
    ELSE IF little_endian /\ m.byte_size.form # "absent"
            /\ dwarf_formudata_word(m.byte_size).err # "ok" THEN "other"
    ELSE "ok"

\* Faulty variant: the type of a bit field is never read for its size.
EvaluatesMemberTypeNever(m, little_endian) == FALSE

\* parse_member_offset() calls drgn_lazy_type_evaluate(member_type): the
\* member has DW_AT_bit_offset, the file is little-endian and the member has
\* no DW_AT_byte_size.
EvaluatesMemberType(m, little_endian) ==
    /\ MemberError(m, little_endian) = "ok"
    /\ m.bit_offset.form # "absent"
    /\ little_endian
    /\ m.byte_size.form = "absent"

\* The member after member n at which the loop over the members stops to
\* evaluate a type or to fail; 0 when it runs to the end.
MemberStop(die, n) ==
    LET ms == MemberChildren(die)
        le == DieLittleEndian(die)
        stops == {i \in (n + 1)..Len(ms) :
                     \/ MemberError(ms[i], le) # "ok"
                     \/ EvaluatesMemberType(ms[i], le)}
    IN  IF stops = {} THEN 0 ELSE CHOOSE i \in stops : \A j \in stops : i <= j

\* The loop stops at a member whose type it evaluates.
MemberStopEvaluates(die, n) ==
    /\ MemberStop(die, n) # 0
    /\ MemberError(MemberChildren(die)[MemberStop(die, n)],
                   DieLittleEndian(die)) = "ok"

\* The compound DIE reaches the loop over its members.
ParsesMembers(die) ==
    /\ dwarf_tag(die) \in {"structure_type", "union_type", "class_type"}
    /\ ~dwarf_flag_declaration(die)
    /\ dwarf_bytesize(die) # -1

CompoundKind(tag) ==
    CASE tag = "structure_type" -> "struct"
      [] tag = "union_type" -> "union"
      [] tag = "class_type" -> "class"

\* DW_TAG_subroutine_type and DW_TAG_subprogram
FunctionTags == {"subroutine_type", "subprogram"}

\* Faulty variant: a second DW_TAG_unspecified_parameters child is accepted.
ParametersErrorOnce(die) ==
    LET cs == DieInfo(die).members
        is_variadic(i) ==
            \E j \in 1..(i - 1) : cs[j].tag = "unspecified_parameters"
        bad == {i \in 1..Len(cs) :
                   /\ cs[i].tag = "formal_parameter"
                   /\ (is_variadic(i) \/ cs[i].type = NoDie)}
    IN  IF bad = {} THEN "ok" ELSE "other"

\* The loop over the children of a function DIE: the error of the first
\* DW_TAG_formal_parameter child that follows a DW_TAG_unspecified_parameters
\* child or has no DW_AT_type, or of the second
\* DW_TAG_unspecified_parameters child.
ParametersError(die) ==
    LET cs == DieInfo(die).members
        is_variadic(i) ==
            \E j \in 1..(i - 1) : cs[j].tag = "unspecified_parameters"
        bad == {i \in 1..Len(cs) :
                   \/ /\ cs[i].tag = "formal_parameter"
                      /\ (is_variadic(i) \/ cs[i].type = NoDie)
                   \/ /\ cs[i].tag = "unspecified_parameters"
                      /\ is_variadic(i)}
    IN  IF bad = {} THEN "ok" ELSE "other"

\* The resolution a dispatcher asks for before it builds its type: the DIE,
\* the flag and the out-parameter it passes down.  The dispatchers of
\* DW_AT_type go through drgn_type_from_dwarf_child, those of a declaration
\* and of an enumeration's DW_AT_type through drgn_type_from_dwarf.
ChildCall(f) ==
    LET tag == dwarf_tag(f.die)
        found == drgn_dwarf_info_cache_find_complete(tag, dwarf_diename(f.die))
    IN  CASE tag \in QualifierTags ->
               [call |-> TRUE, die |-> dwarf_type(f.die),
                can_be_incomplete_array |-> TRUE, has_ret |-> FALSE, n |-> 0]
          [] tag = "typedef" ->
               [call |-> dwarf_diename(f.die) # "", die |-> dwarf_type(f.die),
                can_be_incomplete_array |-> f.can_be_incomplete_array,
                has_ret |-> TRUE, n |-> 0]
          [] tag = "pointer_type" ->
               [call |-> TRUE, die |-> dwarf_type(f.die),
                can_be_incomplete_array |-> TRUE, has_ret |-> FALSE, n |-> 0]
          [] tag = "array_type" ->
               [call |-> DimensionsError(f.die) = "ok", die |-> dwarf_type(f.die),
                can_be_incomplete_array |-> FALSE, has_ret |-> FALSE, n |-> 0]
          [] tag \in CompoundTags /\ ParsesMembers(f.die) ->
               [call |-> MemberStopEvaluates(f.die, 0),
                die |-> IF MemberStopEvaluates(f.die, 0)
                        THEN MemberChildren(f.die)[MemberStop(f.die, 0)].type
                        ELSE NoDie,
                can_be_incomplete_array |->
                    MemberCanBeIncompleteArray(f.die, CompoundKind(tag),
                                               MemberStop(f.die, 0)),
                has_ret |-> FALSE, n |-> MemberStop(f.die, 0)]
          [] tag \in CompoundTags /\ ~ParsesMembers(f.die) ->
               [call |-> SearchesComplete(f.die) /\ found.err = "ok",
                die |-> found.die,
                can_be_incomplete_array |-> TRUE, has_ret |-> FALSE, n |-> 0]
          [] tag \in FunctionTags ->
               [call |-> ParametersError(f.die) = "ok",
                die |-> dwarf_type(f.die),
                can_be_incomplete_array |-> TRUE, has_ret |-> FALSE, n |-> 0]
          [] tag = "base_type" ->
               [call |-> /\ dwarf_diename(f.die) # ""
                         /\ dwarf_bytesize(f.die) # -1
                         /\ dwarf_encoding(f.die) = "complex_float",
                die |-> dwarf_type(f.die),
                can_be_incomplete_array |-> TRUE, has_ret |-> FALSE, n |-> 0]
          [] tag = "enumeration_type" ->
               [call |-> IF dwarf_flag_declaration(f.die)
                         THEN SearchesComplete(f.die) /\ found.err = "ok"
                         ELSE TRUE,
                die |-> IF dwarf_flag_declaration(f.die)
                        THEN found.die ELSE dwarf_type(f.die),
                can_be_incomplete_array |-> TRUE, has_ret |-> FALSE, n |-> 0]
          [] OTHER ->
               [call |-> FALSE, die |-> NoDie,
                can_be_incomplete_array |-> FALSE, has_ret |-> FALSE, n |-> 0]

\* drgn_type_from_dwarf_child(): the qualified type of the DIE's DW_AT_type,
\* void when it is absent and may be, as [err, type, qualifiers, written,
\* is_incomplete_array].  `r` is the return of the call made for DW_AT_type.
drgn_type_from_dwarf_child(f, r, can_be_void) ==
    IF dwarf_type(f.die) = NoDie
    THEN IF can_be_void
         THEN [err |-> "ok", type |-> VoidType, qualifiers |-> {},
               written |-> FALSE, is_incomplete_array |-> FALSE]
         ELSE [err |-> "other", type |-> NoType, qualifiers |-> {},
               written |-> FALSE, is_incomplete_array |-> FALSE]
    ELSE [err |-> r.err, type |-> r.type, qualifiers |-> r.qualifiers,
          written |-> r.written, is_incomplete_array |-> r.is_incomplete_array]

drgn_base_type_from_dwarf(f, r, T) ==
    LET name == dwarf_diename(f.die)
        size == dwarf_bytesize(f.die)
        encoding == dwarf_encoding(f.die)
        made(c) == Out("ok", c.type, {}, f.is_incomplete_array, c.types)
    IN  IF name = "" \/ size = -1
        THEN Failed("other", f, T)
        ELSE CASE encoding = "boolean" ->
                    made(drgn_bool_type_create(T, name, size, f.die))
               [] encoding = "float" ->
                    made(drgn_float_type_create(T, name, size, f.die))
               [] encoding = "signed" ->
                    made(drgn_int_type_create(T, name, size, TRUE, f.die))
               [] encoding = "unsigned" ->
                    made(drgn_int_type_create(T, name, size, FALSE, f.die))
               [] encoding = "complex_float" ->
                    IF dwarf_type(f.die) = NoDie
                    THEN Failed("other", f, T)
                    ELSE IF r.err # "ok"
                    THEN Failed(r.err, f, T)
                    ELSE IF TypeOf(T, r.type).kind \notin {"float", "int"}
                    THEN Failed("other", f, T)
                    ELSE made(drgn_complex_type_create(T, name, size, r.type,
                                                       f.die))
               [] OTHER -> Failed("other", f, T)

\* drgn_type_has_size(): the kinds of type that have a size.
drgn_type_has_size(T, h) ==
    TypeOf(T, h).kind \in {"int", "bool", "float", "complex", "struct", "union",
                           "class", "pointer"}

\* The type of member n as drgn_lazy_type_evaluate() left it.
EvaluatedMember(n, r) == [n |-> n, type |-> r.type, qualifiers |-> r.qualifiers]

\* The types of the members evaluated when call `r` has returned.
LazyEvaluations(f, r) ==
    IF f.n > 0 THEN Append(f.lazy, EvaluatedMember(f.n, r)) ELSE f.lazy

\* After the type of member f.n is evaluated, with a size, the loop goes on
\* to another member whose type it evaluates.
MoreMembers(f, r, T) ==
    /\ ParsesMembers(f.die)
    /\ f.n > 0
    /\ r.err = "ok"
    /\ drgn_type_has_size(T, r.type)
    /\ MemberStopEvaluates(f.die, f.n)

\* parse_member() for every DW_TAG_member child: the last member may be an
\* incomplete array when the compound is no union and has a member before it;
\* a member whose type parse_member_offset() evaluated is held evaluated.
CompoundMembers(die, kind, lazy) ==
    LET ms == MemberChildren(die)
    IN  [i \in 1..Len(ms) |->
            LET thunk == LazyThunk(ms[i].name, ms[i].type,
                                   MemberCanBeIncompleteArray(die, kind, i))
            IN  IF \E k \in 1..Len(lazy) : lazy[k].n = i
                THEN LET e == lazy[CHOOSE k \in 1..Len(lazy) : lazy[k].n = i]
                     IN  LazyEvaluated(thunk, e.type, e.qualifiers)
                ELSE thunk]

drgn_compound_type_from_dwarf(f, r, T, kind) ==
    LET found == drgn_dwarf_info_cache_find_complete(dwarf_tag(f.die),
                                                     dwarf_diename(f.die))
    IN  IF SearchesComplete(f.die) /\ found.err = "ok"
        THEN IF r.err # "ok"
             THEN Failed(r.err, f, T)
             ELSE Out("ok", r.type, {}, f.is_incomplete_array, T)
        ELSE IF SearchesComplete(f.die) /\ found.err # "stop"
        THEN Failed(found.err, f, T)
        ELSE IF dwarf_flag_declaration(f.die)
        THEN LET c == drgn_incomplete_compound_type_create(
                          T, kind, dwarf_diename(f.die), f.die)
             IN  Out("ok", c.type, {}, f.is_incomplete_array, c.types)
        ELSE IF dwarf_bytesize(f.die) = -1
        THEN Failed("other", f, T)
        ELSE IF f.n > 0 /\ r.err # "ok"
        THEN Failed(r.err, f, T)
        ELSE IF f.n > 0 /\ ~drgn_type_has_size(T, r.type)
        THEN Failed("other", f, T)
        ELSE IF MemberStop(f.die, f.n) # 0
        THEN Failed("other", f, T)
        ELSE LET c == drgn_compound_type_create(
                          T, kind, dwarf_diename(f.die), dwarf_bytesize(f.die),
                          CompoundMembers(f.die, kind, LazyEvaluations(f, r)),
                          f.die)
             IN  Out("ok", c.type, {}, f.is_incomplete_array, c.types)

\* drgn_enum_type_from_dwarf(); the enumerators are left out of the image.
drgn_enum_type_from_dwarf(f, r, T) ==
    LET found == drgn_dwarf_info_cache_find_complete(dwarf_tag(f.die),
                                                     dwarf_diename(f.die))
    IN  IF SearchesComplete(f.die) /\ found.err = "ok"
        THEN IF r.err # "ok"
             THEN Failed(r.err, f, T)
             ELSE Out("ok", r.type, {}, f.is_incomplete_array, T)
        ELSE IF SearchesComplete(f.die) /\ found.err # "stop"
        THEN Failed(found.err, f, T)
        ELSE IF dwarf_flag_declaration(f.die)
        THEN LET c == drgn_incomplete_enum_type_create(T, dwarf_diename(f.die),
                                                       f.die)
             IN  Out("ok", c.type, {}, f.is_incomplete_array, c.types)
        ELSE IF dwarf_type(f.die) = NoDie
        THEN \* enum_compatible_type_fallback()
             IF dwarf_bytesize(f.die) = -1
             THEN Failed("other", f, T)
             ELSE LET i == drgn_int_type_create(T, "<unknown>",
                                                dwarf_bytesize(f.die), FALSE,
                                                f.die)
                      c == drgn_enum_type_create(i.types, dwarf_diename(f.die),
                                                 i.type, f.die)
                  IN  Out("ok", c.type, {}, f.is_incomplete_array, c.types)
        ELSE IF r.err # "ok"
        THEN Failed(r.err, f, T)
        ELSE IF TypeOf(T, r.type).kind # "int"
        THEN Failed("other", f, T)
        ELSE LET c == drgn_enum_type_create(T, dwarf_diename(f.die), r.type,
                                            f.die)
             IN  Out("ok", c.type, {}, f.is_incomplete_array, c.types)

drgn_typedef_type_from_dwarf(f, r, T) ==
    IF dwarf_diename(f.die) = ""
    THEN Failed("other", f, T)
    ELSE LET a == drgn_type_from_dwarf_child(f, r, TRUE)
             inc == IF a.written THEN a.is_incomplete_array
                    ELSE f.is_incomplete_array
         IN  IF a.err # "ok"
             THEN Out(a.err, NoType, {}, inc, T)
             ELSE LET c == drgn_typedef_type_create(T, dwarf_diename(f.die),
                                                    a.type, a.qualifiers, f.die)
                  IN  Out("ok", c.type, {}, inc, c.types)

drgn_pointer_type_from_dwarf(f, r, T) ==
    LET a == drgn_type_from_dwarf_child(f, r, TRUE)
    IN  IF a.err # "ok"
        THEN Failed(a.err, f, T)
        ELSE LET c == drgn_pointer_type_create(T, a.type, a.qualifiers, f.die)
             IN  Out("ok", c.type, {}, f.is_incomplete_array, c.types)

\* The do-while loop of drgn_array_type_from_dwarf: the dimensions popped
\* from the innermost, `n` the number still in the vector.
RECURSIVE ArrayFold(_, _, _, _, _, _, _)
ArrayFold(T, site, dims, n, element_type, element_qualifiers, can_be_incomplete_array) ==
    LET dimension == dims[n]
        c == IF dimension.is_complete
             THEN drgn_array_type_create(T, element_type, element_qualifiers,
                                         dimension.length, site)
             ELSE IF n - 1 > 0 \/ ~can_be_incomplete_array
             THEN drgn_array_type_create(T, element_type, element_qualifiers,
                                         U64(0), site)
             ELSE drgn_incomplete_array_type_create(T, element_type,
                                                    element_qualifiers, site)
    IN  IF n - 1 > 0
        THEN ArrayFold(c.types, site, dims, n - 1, c.type, {},
                       can_be_incomplete_array)
        ELSE c

drgn_array_type_from_dwarf(f, r, T) ==
    LET dims == Dimensions(f.die)
        a == drgn_type_from_dwarf_child(f, r, FALSE)
    IN  IF DimensionsError(f.die) # "ok"
        THEN Failed(DimensionsError(f.die), f, T)
        ELSE IF a.err # "ok"
        THEN Failed(a.err, f, T)
        ELSE LET c == ArrayFold(T, f.die, dims, Len(dims), a.type, a.qualifiers,
                                f.can_be_incomplete_array)
             IN  Out("ok", c.type, {}, ~dims[1].is_complete, c.types)

\* parse_formal_parameter() for every DW_TAG_formal_parameter child: a thunk
\* that allows an incomplete array.
FunctionParameters(die) ==
    LET ps == SelectSeq(DieInfo(die).members,
                        LAMBDA c : c.tag = "formal_parameter")
    IN  [i \in 1..Len(ps) |-> LazyThunk(ps[i].name, ps[i].type, TRUE)]

\* bool is_variadic at the end of the loop over the children.
IsVariadic(die) ==
    \E i \in 1..Len(DieInfo(die).members) :
        DieInfo(die).members[i].tag = "unspecified_parameters"

drgn_function_type_from_dwarf(f, r, T) ==
    LET a == drgn_type_from_dwarf_child(f, r, TRUE)
    IN  IF ParametersError(f.die) # "ok"
        THEN Failed(ParametersError(f.die), f, T)
        ELSE IF a.err # "ok"
        THEN Failed(a.err, f, T)
        ELSE LET c == drgn_function_type_create(T, FunctionParameters(f.die),
                                                a.type, a.qualifiers,
                                                IsVariadic(f.die), f.die)
             IN  Out("ok", c.type, {}, f.is_incomplete_array, c.types)

\* Faulty variant: the tag's bit replaces the qualifiers of DW_AT_type.
QualifiedFromDwarfAssign(f, r, T) ==
    LET a == drgn_type_from_dwarf_child(f, r, TRUE)
    IN  IF a.err # "ok"
        THEN Failed(a.err, f, T)
        ELSE Out("ok", a.type, {QualifierOf(dwarf_tag(f.die))},
                 f.is_incomplete_array, T)

\* The qualifier cases of the switch: the type of DW_AT_type with the tag's
\* bit added to its qualifiers.
QualifiedFromDwarf(f, r, T) ==
    LET a == drgn_type_from_dwarf_child(f, r, TRUE)
    IN  IF a.err # "ok"
        THEN Failed(a.err, f, T)
        ELSE Out("ok", a.type, a.qualifiers \cup {QualifierOf(dwarf_tag(f.die))},
                 f.is_incomplete_array, T)

\* switch (dwarf_tag(die))
Dispatch(f, r, T) ==
    LET tag == dwarf_tag(f.die)
    IN  CASE tag \in QualifierTags -> QualifiedFromDwarf(f, r, T)
          [] tag = "base_type" -> drgn_base_type_from_dwarf(f, r, T)
          [] tag = "structure_type" ->
               drgn_compound_type_from_dwarf(f, r, T, "struct")
          [] tag = "union_type" -> drgn_compound_type_from_dwarf(f, r, T, "union")
          [] tag = "class_type" -> drgn_compound_type_from_dwarf(f, r, T, "class")
          [] tag = "enumeration_type" -> drgn_enum_type_from_dwarf(f, r, T)
          [] tag = "typedef" -> drgn_typedef_type_from_dwarf(f, r, T)
          [] tag = "pointer_type" -> drgn_pointer_type_from_dwarf(f, r, T)
          [] tag = "array_type" -> drgn_array_type_from_dwarf(f, r, T)
          [] tag \in FunctionTags -> drgn_function_type_from_dwarf(f, r, T)
          [] OTHER -> Failed("other", f, T)

(***************************************************************************)
(* The actions.                                                            *)
(***************************************************************************)

Result(r) ==
    [die |-> r.die, can_be_incomplete_array |-> r.can_be_incomplete_array,
     type |-> r.type, qualifiers |-> r.qualifiers]

\* drgn_lazy_type_evaluate(): the holder keeps the evaluated type in place of
\* the thunk once the evaluation has succeeded.
StoreLazy(T, r) ==
    IF holder # NoHolder /\ r.err = "ok"
    THEN LET old == TypeOf(T, holder[1])
         IN  (T \ {TypeRec(holder[1], old)})
             \cup {TypeRec(holder[1],
                           [old EXCEPT !.members[holder[2]] =
                                LazyEvaluated(@, r.type, r.qualifiers)])}
    ELSE T

\* The innermost call returns `r` to its caller; T are the descriptors made.
Return(r, T) ==
    /\ stack' = Tail(stack)
    /\ ret' = r
    /\ results' = IF r.err = "ok" THEN results \cup {Result(r)} ELSE results
    /\ types' = IF Tail(stack) = <<>> THEN StoreLazy(T, r) ELSE T
    /\ holder' = IF Tail(stack) = <<>> THEN NoHolder ELSE holder

\* Faulty variant: no result is put in a map.
ReachesInsertNever(err) == FALSE

\* Faulty variant: the result is put in a map before the error is looked at.
ReachesInsertAlways(err) == TRUE

\* if (err) return err;  before the result is put in a map.
ReachesInsert(err) == err = "ok"

\* Faulty variant: the caller's can_be_incomplete_array is not looked at.
UsesRestrictedMapFlagOnly(can_be_incomplete_array, is_incomplete_array) == is_incomplete_array

\* Faulty variant: every result goes to the primary map.
UsesRestrictedMapNever(can_be_incomplete_array, is_incomplete_array) == FALSE

\* if (!can_be_incomplete_array && entry.value.is_incomplete_array)
\*         map = &dicache->cant_be_incomplete_array_map;
UsesRestrictedMap(can_be_incomplete_array, is_incomplete_array) ==
    ~can_be_incomplete_array /\ is_incomplete_array

\* No finder or decoder is called, or the last one has returned.
NoCall == [fn |-> "none", pc |-> "idle"]

CallActive == call.pc \notin {"idle", "done"}

\* drgn_type_from_dwarf(): a caller outside asks for the type of a DIE.
drgn_type_from_dwarf(die) ==
    /\ stack = <<>>
    /\ ~CallActive
    /\ stack' = <<Frame(die, TRUE, FALSE)>>
    /\ ret' = NoRet
    /\ UNCHANGED <<map, cant_be_incomplete_array_map, depth, types, holder,
                   results, dindex, enomem, call>>

\* The descriptors a caller outside can hold: those the cache has returned.
Visible(h) ==
    \E e \in map \cup cant_be_incomplete_array_map : e.type = h

\* drgn_type_from_dwarf_thunk_evaluate_fn(): the first read of member i of
\* the compound h evaluates its thunk.
drgn_type_from_dwarf_thunk_evaluate_fn(h, i) ==
    /\ stack = <<>>
    /\ ~CallActive
    /\ Visible(h)
    /\ TypeOf(types, h).members[i].thunk
    /\ stack' = <<Frame(TypeOf(types, h).members[i].die,
                        TypeOf(types, h).members[i].can_be_incomplete_array,
                        FALSE)>>
    /\ holder' = <<h, i>>
    /\ ret' = NoRet
    /\ UNCHANGED <<map, cant_be_incomplete_array_map, depth, types, results,
                   dindex, enomem, call>>

\* drgn_type_from_dwarf_internal() up to the switch: the depth check, the
\* memo lookup, depth++, and the dispatcher's call for DW_AT_type if any.
Enter ==
    /\ stack # <<>>
    /\ Head(stack).pc = "enter"
    /\ \E c \in {ChildCall(Head(stack))} :
       LET f == Head(stack)
       IN  IF DepthExceeded(depth)
           THEN /\ Return(Returned(f, "recursion", NoType, {}, FALSE, FALSE, FALSE),
                          types)
                /\ UNCHANGED <<map, cant_be_incomplete_array_map, depth, dindex,
                               enomem, call>>
           ELSE \/ /\ \E e \in MemoHits(f.die, f.can_be_incomplete_array) :
                          Return(Returned(f, "ok", e.type, e.qualifiers, FALSE,
                                          FALSE, TRUE), types)
                   /\ UNCHANGED <<map, cant_be_incomplete_array_map, depth,
                                  dindex, enomem, call>>
                \/ /\ MemoMiss(f.die, f.can_be_incomplete_array)
                   /\ drgn_language_from_die(f.die) # "ok"
                   /\ Return(Returned(f, drgn_language_from_die(f.die), NoType,
                                      {}, FALSE, FALSE, FALSE), types)
                   /\ UNCHANGED <<map, cant_be_incomplete_array_map, depth,
                                  dindex, enomem, call>>
                \/ /\ MemoMiss(f.die, f.can_be_incomplete_array)
                   /\ drgn_language_from_die(f.die) = "ok"
                   /\ depth' = depth + 1
                   /\ stack' =
                        (IF c.call /\ c.die # NoDie
                         THEN <<[Frame(c.die, c.can_be_incomplete_array,
                                       c.has_ret) EXCEPT !.depth0 = depth + 1],
                                [f EXCEPT !.pc = "dispatch", !.called = TRUE,
                                          !.n = c.n]>>
                         ELSE <<[f EXCEPT !.pc = "dispatch"]>>)
                        \o Tail(stack)
                   /\ ret' = NoRet
                   /\ UNCHANGED <<map, cant_be_incomplete_array_map, types,
                                  holder, results, dindex, enomem, call>>

\* Faulty variant: the counter is restored on success only.
DepthAfterDispatchLeak(d, err) == IF err = "ok" THEN d - 1 ELSE d

\* dicache->depth--;  whatever the dispatcher returned.
DepthAfterDispatch(d, err) == d - 1

\* drgn_type_from_dwarf_internal() from the end of the dispatcher on:
\* depth--, and the result is put in one of the maps and returned.
ResumeDispatch ==
    /\ \E o \in {Dispatch(Head(stack), ret, types)} :
       LET f == Head(stack)
           entry == Entry(f.die, o.type, o.qualifiers, o.is_incomplete_array)
       IN  /\ depth' = DepthAfterDispatch(depth, o.err)
           /\ UNCHANGED <<dindex, call>>
           /\ \E fail \in (IF ReachesInsert(o.err) /\ enomem > 0
                           THEN BOOLEAN ELSE {FALSE}) :
                LET inserted == ReachesInsert(o.err) /\ ~fail
                    err == IF o.err # "ok" THEN o.err
                           ELSE IF fail THEN "enomem" ELSE "ok"
                IN  /\ enomem' = IF fail THEN enomem - 1 ELSE enomem
                    /\ IF inserted /\ UsesRestrictedMap(f.can_be_incomplete_array,
                                                        o.is_incomplete_array)
                       THEN /\ cant_be_incomplete_array_map' =
                                 dwarf_type_map_insert_searched(
                                     cant_be_incomplete_array_map, entry)
                            /\ UNCHANGED map
                       ELSE IF inserted
                       THEN /\ map' = dwarf_type_map_insert_searched(map, entry)
                            /\ UNCHANGED cant_be_incomplete_array_map
                       ELSE UNCHANGED <<map, cant_be_incomplete_array_map>>
                    /\ IF err = "ok"
                       THEN Return(Returned(f, "ok", o.type, o.qualifiers,
                                            f.has_ret, o.is_incomplete_array,
                                            FALSE), o.types)
                       ELSE Return(Returned(f, err, NoType, {}, FALSE, FALSE,
                                            FALSE), o.types)

\* drgn_type_from_dwarf_internal() from the switch on, when the call the
\* dispatcher made has returned or it made none: the loop over the members
\* of a compound goes on to the next type it evaluates, or the dispatcher
\* ends.
Resume ==
    /\ stack # <<>>
    /\ Head(stack).pc = "dispatch"
    /\ IF MoreMembers(Head(stack), ret, types)
       THEN LET f == Head(stack)
                n == MemberStop(f.die, f.n)
            IN  /\ stack' =
                     <<Frame(MemberChildren(f.die)[n].type,
                             MemberCanBeIncompleteArray(
                                 f.die, CompoundKind(dwarf_tag(f.die)), n),
                             FALSE),
                       [f EXCEPT !.n = n, !.lazy = LazyEvaluations(f, ret)]>>
                     \o Tail(stack)
                /\ ret' = NoRet
                /\ UNCHANGED <<map, cant_be_incomplete_array_map, depth, types,
                               holder, results, dindex, enomem, call>>
       ELSE ResumeDispatch

(***************************************************************************)
(* drgn_dwarf_type_find().  `call` holds the kind, name and filename asked *)
(* for, the number n of DIEs the iterator has yielded, the candidates      *)
(* examined so far with what became of each, and at the end the error and  *)
(* the qualified type left in *ret.                                        *)
(***************************************************************************)

\* switch (kind): the one tag the index is asked for.
KindTag(kind) ==
    CASE kind \in {"int", "bool", "float"} -> "base_type"
      [] kind = "struct" -> "structure_type"
      [] kind = "union" -> "union_type"
      [] kind = "class" -> "class_type"
      [] kind = "enum" -> "enumeration_type"
      [] kind = "typedef" -> "typedef"

\* Faulty variant: the first candidate resolved is returned.
KindMatchesAlways(found, kind) == TRUE

\* if (drgn_type_kind(ret->type) == kind)
KindMatches(found, kind) == found = kind

Examined(die, err, type, kind) ==
    [die |-> die, err |-> err, type |-> type, kind |-> kind]

\* The call of drgn_dwarf_type_find() and the initialisation of its iterator.
drgn_dwarf_type_find(kind, name, filename) ==
    /\ stack = <<>>
    /\ ~CallActive
    /\ call' = [fn |-> "find_type", pc |-> "next", kind |-> kind,
                name |-> name, filename |-> filename, n |-> 0,
                examined |-> <<>>, err |-> "none", type |-> NoType,
                qualifiers |-> {}]
    /\ ret' = NoRet
    /\ UNCHANGED <<map, cant_be_incomplete_array_map, depth, types, stack,
                   holder, results, dindex, enomem>>

\* drgn_dwarf_index_iterator_next() and die_matches_filename(): the search
\* ends, or the next DIE is skipped, or it is handed to drgn_type_from_dwarf.
FindTypeNext ==
    /\ call.fn = "find_type"
    /\ call.pc = "next"
    /\ stack = <<>>
    /\ LET tag == KindTag(call.kind)
           it == drgn_dwarf_index_iterator(tag, call.name)
           err == drgn_dwarf_index_iterator_error(tag, call.name)
       IN  IF err # "ok"
           THEN /\ call' = [call EXCEPT !.pc = "done", !.err = err]
                /\ UNCHANGED <<stack, ret>>
           ELSE IF call.n >= Len(it)
           THEN /\ call' = [call EXCEPT !.pc = "done", !.err = "not_found"]
                /\ UNCHANGED <<stack, ret>>
           ELSE IF die_matches_filename(it[call.n + 1], call.filename)
           THEN /\ call' = [call EXCEPT !.pc = "check", !.n = @ + 1]
                /\ stack' = <<Frame(it[call.n + 1], TRUE, FALSE)>>
                /\ ret' = NoRet
           ELSE /\ call' = [call EXCEPT !.n = @ + 1]
                /\ UNCHANGED <<stack, ret>>
    /\ UNCHANGED <<map, cant_be_incomplete_array_map, depth, types, holder,
                   results, dindex, enomem>>

\* drgn_type_from_dwarf() has returned: its error is returned, or the type
\* it found when that is of the kind asked for, or the search goes on.
FindTypeCheck ==
    /\ call.fn = "find_type"
    /\ call.pc = "check"
    /\ stack = <<>>
    /\ ret.err # "none"
    /\ LET found == IF ret.err = "ok" THEN TypeOf(types, ret.type).kind
                    ELSE "none"
           seen == Append(call.examined,
                          Examined(ret.die, ret.err, ret.type, found))
       IN  IF ret.err # "ok"
           THEN call' = [call EXCEPT !.pc = "done", !.err = ret.err,
                                     !.examined = seen]
           ELSE IF KindMatches(found, call.kind)
           THEN call' = [call EXCEPT !.pc = "done", !.err = "ok",
                                     !.type = ret.type,
                                     !.qualifiers = ret.qualifiers,
                                     !.examined = seen]
           ELSE call' = [call EXCEPT !.pc = "next", !.type = ret.type,
                                     !.qualifiers = ret.qualifiers,
                                     !.examined = seen]
    /\ UNCHANGED <<map, cant_be_incomplete_array_map, depth, types, stack, ret,
                   holder, results, dindex, enomem>>

(***************************************************************************)
(* drgn_dwarf_object_find() for a DW_TAG_variable DIE.  A variable is      *)
(* [type, location, const_value, endianity, elf_little, bias]: the DIE of  *)
(* DW_AT_type; DW_AT_location as [form, ops], the form "absent", "invalid" *)
(* (dwarf_getlocation fails) or "exprloc" with its operations;             *)
(* DW_AT_const_value as [form, raw, block], the form "absent", "block" or  *)
(* that of a number; DW_AT_endianity as "absent", "invalid"                *)
(* (dwarf_formudata fails) or "default", "little", "big", "other"; the     *)
(* EI_DATA of the ELF file; and the bias the index yields with the DIE.    *)
(***************************************************************************)
Op(atom, number) == [atom |-> atom, number |-> number]

Location(form, ops) == [form |-> form, ops |-> ops]

ConstValue(form, raw, block) == [form |-> form, raw |-> raw, block |-> block]

NoConstValue == ConstValue("absent", 0, <<>>)

\* dwarf_die_is_little_endian()
dwarf_die_is_little_endian(v, check_attr) ==
    IF check_attr /\ v.endianity = "invalid"
    THEN [err |-> "other", little_endian |-> FALSE]
    ELSE LET endianity == IF check_attr /\ v.endianity # "absent"
                          THEN v.endianity ELSE "default"
         IN  CASE endianity = "default" ->
                    [err |-> "ok", little_endian |-> v.elf_little]
               [] endianity = "little" -> [err |-> "ok", little_endian |-> TRUE]
               [] endianity = "big" -> [err |-> "ok", little_endian |-> FALSE]
               [] OTHER -> [err |-> "other", little_endian |-> FALSE]

\* dwarf_die_byte_order()
dwarf_die_byte_order(v, check_attr) == dwarf_die_is_little_endian(v, check_attr)

\* The object layer (object.c): the storage kind and the size in bits that
\* drgn_object_set_common() derives from a type, looking through typedefs.
RECURSIVE ObjectKind(_, _)
ObjectKind(T, h) ==
    LET d == TypeOf(T, h)
    IN  CASE d.kind = "int" -> IF d.is_signed THEN "signed" ELSE "unsigned"
          [] d.kind = "bool" -> "unsigned"
          [] d.kind = "float" -> "float"
          [] d.kind = "typedef" -> ObjectKind(T, d.type)
          [] d.kind \in {"struct", "union", "class", "array"} /\ d.is_complete ->
               "buffer"
          [] OTHER -> "none"

RECURSIVE ObjectBitSize(_, _)
ObjectBitSize(T, h) ==
    LET d == TypeOf(T, h)
    IN  IF d.kind = "typedef" THEN ObjectBitSize(T, d.type) ELSE 8 * d.size

drgn_object_set_common(T, h) ==
    [err |-> IF ObjectKind(T, h) = "none" THEN "type" ELSE "ok",
     kind |-> ObjectKind(T, h), bit_size |-> ObjectBitSize(T, h)]

NoObject ==
    [kind |-> "none", type |-> NoType, qualifiers |-> {}, bit_size |-> 0,
     address |-> U64(0), little_endian |-> FALSE, buf |-> <<>>, value |-> 0]

drgn_object_set_reference(type, qualifiers, address, little_endian) ==
    [NoObject EXCEPT !.kind = "reference", !.type = type,
                     !.qualifiers = qualifiers, !.address = address,
                     !.little_endian = little_endian]

\* drgn_value_size(bit_size, 0): the bytes that hold bit_size bits.
drgn_value_size(bit_size) == (bit_size + 7) \div 8

drgn_object_set_buffer_internal(type, qualifiers, kind, bit_size, data, little_endian) ==
    [NoObject EXCEPT !.kind = kind, !.type = type, !.qualifiers = qualifiers,
                     !.bit_size = bit_size, !.little_endian = little_endian,
                     !.buf = SubSeq(data, 1, drgn_value_size(bit_size))]

\* truncate_signed(): the low bit_size bits of the value, as a signed number.
truncate_signed(value, bit_size) ==
    LET low == value % (2 ^ bit_size)
    IN  IF low >= 2 ^ (bit_size - 1) THEN low - 2 ^ bit_size ELSE low

drgn_object_set_signed_internal(type, qualifiers, bit_size, svalue) ==
    [NoObject EXCEPT !.kind = "signed", !.type = type,
                     !.qualifiers = qualifiers, !.bit_size = bit_size,
                     !.value = truncate_signed(svalue, bit_size)]

drgn_object_set_unsigned_internal(type, qualifiers, bit_size, uvalue) ==
    [NoObject EXCEPT !.kind = "unsigned", !.type = type,
                     !.qualifiers = qualifiers, !.bit_size = bit_size,
                     !.value = uvalue % (2 ^ bit_size)]

\* The bits of a fixed-size data form.
FormBits(form) ==
    CASE form = "data1" -> 8
      [] form = "data2" -> 16
      [] OTHER -> 0

ConstantForms == {"data1", "data2", "sdata", "udata"}

\* dwarf_formsdata(): the fixed-size forms are sign-extended.
dwarf_formsdata(attr) ==
    IF attr.form \notin ConstantForms
    THEN [err |-> "other", value |-> 0]
    ELSE [err |-> "ok",
          value |-> IF FormBits(attr.form) > 0
                    THEN truncate_signed(attr.raw, FormBits(attr.form))
                    ELSE attr.raw]

\* Faulty variant: the fixed-size forms are read as signed numbers.
FormudataSigned(attr) == dwarf_formsdata(attr)

\* dwarf_formudata(): the fixed-size forms are zero-extended.
dwarf_formudata(attr) ==
    IF attr.form \notin ConstantForms
    THEN [err |-> "other", value |-> 0]
    ELSE [err |-> "ok", value |-> attr.raw]

ObjOut(err, obj) == [err |-> err, obj |-> obj]

\* drgn_object_from_dwarf_constant()
drgn_object_from_dwarf_constant(v, T, type, qualifiers) ==
    LET common == drgn_object_set_common(T, type)
        attr == v.const_value
        le == dwarf_die_is_little_endian(v, TRUE)
        s == dwarf_formsdata(attr)
        u == dwarf_formudata(attr)
    IN  IF common.err # "ok"
        THEN ObjOut(common.err, NoObject)
        ELSE IF attr.form = "block"
        THEN IF le.err # "ok"
             THEN ObjOut(le.err, NoObject)
             ELSE IF Len(attr.block) < drgn_value_size(common.bit_size)
             THEN ObjOut("other", NoObject)
             ELSE ObjOut("ok", drgn_object_set_buffer_internal(
                                   type, qualifiers, common.kind,
                                   common.bit_size, attr.block,
                                   le.little_endian))
        ELSE IF common.kind = "signed"
        THEN IF s.err # "ok"
             THEN ObjOut("other", NoObject)
             ELSE ObjOut("ok", drgn_object_set_signed_internal(
                                   type, qualifiers, common.bit_size, s.value))
        ELSE IF common.kind = "unsigned"
        THEN IF u.err # "ok"
             THEN ObjOut("other", NoObject)
             ELSE ObjOut("ok", drgn_object_set_unsigned_internal(
                                   type, qualifiers, common.bit_size, u.value))
        ELSE ObjOut("other", NoObject)

\* Faulty variant: the first operation alone is looked at.
LocationIsAddrFirst(loc) == Len(loc) >= 1 /\ loc[1].atom = "addr"

\* !(nloc != 1 || loc[0].atom != DW_OP_addr)
LocationIsAddr(loc) == Len(loc) = 1 /\ loc[1].atom = "addr"

\* drgn_object_from_dwarf_variable() once the type of the variable is known.
ObjectFromVariable(v, T, type, qualifiers) ==
    LET byte_order == dwarf_die_byte_order(v, TRUE)
    IN  IF v.location.form # "absent"
        THEN IF v.location.form = "invalid"
             THEN ObjOut("other", NoObject)
             ELSE IF ~LocationIsAddr(v.location.ops)
             THEN ObjOut("other", NoObject)
             ELSE IF byte_order.err # "ok"
             THEN ObjOut(byte_order.err, NoObject)
             ELSE ObjOut("ok", drgn_object_set_reference(
                                   type, qualifiers,
                                   Add64(v.location.ops[1].number, v.bias).sum,
                                   byte_order.little_endian))
        ELSE IF v.const_value.form # "absent"
        THEN drgn_object_from_dwarf_constant(v, T, type, qualifiers)
        ELSE ObjOut("lookup", NoObject)

\* drgn_dwarf_object_find() with DRGN_FIND_OBJECT_VARIABLE, the index
\* yielding the variable v: drgn_object_from_dwarf_variable() asks for the
\* type of the variable.
drgn_dwarf_object_find(v) ==
    /\ stack = <<>>
    /\ ~CallActive
    /\ call' = [fn |-> "find_object", pc |-> "type", var |-> v,
                type_err |-> "none", err |-> "none", obj |-> NoObject]
    /\ stack' = <<Frame(v.type, TRUE, FALSE)>>
    /\ ret' = NoRet
    /\ UNCHANGED <<map, cant_be_incomplete_array_map, depth, types, holder,
                   results, dindex, enomem>>

\* drgn_type_from_dwarf_child() has returned to
\* drgn_object_from_dwarf_variable(), which makes the object or fails.
drgn_object_from_dwarf_variable ==
    /\ call.fn = "find_object"
    /\ call.pc = "type"
    /\ stack = <<>>
    /\ ret.err # "none"
    /\ LET o == ObjectFromVariable(call.var, types, ret.type, ret.qualifiers)
       IN  IF ret.err # "ok"
           THEN call' = [call EXCEPT !.pc = "done", !.type_err = ret.err,
                                     !.err = ret.err]
           ELSE call' = [call EXCEPT !.pc = "done", !.type_err = "ok",
                                     !.err = o.err, !.obj = o.obj]
    /\ UNCHANGED <<map, cant_be_incomplete_array_map, depth, types, stack, ret,
                   holder, results, dindex, enomem>>

(***************************************************************************)
(* parse_member_offset() on a DW_TAG_member DIE m: its DW_AT_data_bit_     *)
(* offset, DW_AT_data_member_location, DW_AT_bit_offset and DW_AT_byte_    *)
(* size, the bit_field_size and little_endian parse_member() passes, and   *)
(* what drgn_lazy_type_evaluate() gives for the member's type: an error,   *)
(* or a type without a size, or a type and its size.                       *)
(***************************************************************************)
MemberDie(data_bit_offset, data_member_location, bit_offset, byte_size, bit_field_size, little_endian, type) ==
    [data_bit_offset |-> data_bit_offset,
     data_member_location |-> data_member_location, bit_offset |-> bit_offset,
     byte_size |-> byte_size, bit_field_size |-> bit_field_size,
     little_endian |-> little_endian, type |-> type]

Evaluated(err, has_size, size) == [err |-> err, has_size |-> has_size, size |-> size]

Offset(err, bits) == [err |-> err, ret |-> bits]

\* Faulty variant: the most significant bit is counted from on little-endian.
FromStorageEndBig(little_endian) == ~little_endian

\* if (little_endian): the offset is counted from the end of the storage.
FromStorageEnd(little_endian) == little_endian

\* The byte_size of the little-endian case.
MemberByteSize(m) ==
    IF m.byte_size.form # "absent"
    THEN IF dwarf_formudata_word(m.byte_size).err # "ok"
         THEN Offset("other", U64(0))
         ELSE Offset("ok", m.byte_size.word)
    ELSE IF m.type.err # "ok"
    THEN Offset(m.type.err, U64(0))
    ELSE IF ~m.type.has_size
    THEN Offset("other", U64(0))
    ELSE Offset("ok", m.type.size)

parse_member_offset(m) ==
    LET byte_offset == m.data_member_location
        bits == IF byte_offset.form # "absent" THEN Mul8(byte_offset.word)
                ELSE U64(0)
        bit_offset == m.bit_offset
        byte_size == MemberByteSize(m)
    IN  IF m.data_bit_offset.form # "absent"
        THEN IF dwarf_formudata_word(m.data_bit_offset).err # "ok"
             THEN Offset("other", U64(0))
             ELSE Offset("ok", m.data_bit_offset.word)
        ELSE IF byte_offset.form # "absent"
                /\ dwarf_formudata_word(byte_offset).err # "ok"
        THEN Offset("other", U64(0))
        ELSE IF bit_offset.form = "absent"
        THEN Offset("ok", bits)
        ELSE IF dwarf_formudata_word(bit_offset).err # "ok"
        THEN Offset("other", U64(0))
        ELSE IF FromStorageEnd(m.little_endian)
        THEN IF byte_size.err # "ok"
             THEN Offset(byte_size.err, U64(0))
             ELSE Offset("ok",
                         Add64(bits, Sub64(Sub64(Mul8(byte_size.ret),
                                                 bit_offset.word),
                                           m.bit_field_size)).sum)
        ELSE Offset("ok", Add64(bits, bit_offset.word).sum)

\* parse_member_offset() applied to the member DIE drawn.
ParseMemberOffset ==
    /\ call.fn = "parse_member_offset"
    /\ call.pc = "call"
    /\ call' = [call EXCEPT !.pc = "done", !.out = parse_member_offset(call.m)]
    /\ UNCHANGED <<map, cant_be_incomplete_array_map, depth, types, stack, ret,
                   holder, results, dindex, enomem>>

\* subrange_length() applied to one DW_TAG_subrange_type DIE.
SubrangeLength(sub) ==
    /\ stack = <<>>
    /\ ~CallActive
    /\ call' = [fn |-> "subrange_length", pc |-> "done", sub |-> sub,
                out |-> subrange_length(sub)]
    /\ UNCHANGED <<map, cant_be_incomplete_array_map, depth, types, stack, ret,
                   holder, results, dindex, enomem>>

\* The DIEs a caller outside asks for: the array image, the image of the
\* self-referential struct, and the heads of the typedef chains (the chain of
\* MaxDepth + 1 typedefs, its last MaxDepth - 1 typedefs, its last typedef,
\* and the chain of MaxDepth - 1 typedefs over a base type).
MainRoots == {DieArr, DieTd, DieLast, DieFirst, DieTdBad, DieArrVoid}

NodeRoots == {DieNode, DiePtr, DieNodeT, DieUnion, DieOnly, DieArrArr, DieBadTag}

ChainRoots == {XDie(1), XDie(XLen - YLen + 1), XDie(XLen), YDie(1)}

Init ==
    /\ map = {}
    /\ cant_be_incomplete_array_map = {}
    /\ depth = 0
    /\ types = {TypeRec(VoidType, VoidDescriptor)}
    /\ stack = <<>>
    /\ ret = NoRet
    /\ holder = NoHolder
    /\ results = {}
    /\ dindex = MainRoots
    /\ enomem = MaxEnomem
    /\ call = NoCall

Next ==
    \/ \E die \in dindex : drgn_type_from_dwarf(die)
    \/ \E t \in types :
         \E i \in 1..Len(t.descriptor.members) :
            drgn_type_from_dwarf_thunk_evaluate_fn(t.handle, i)
    \/ Enter
    \/ Resume

Spec == Init /\ [][Next]_vars

InitNode ==
    /\ map = {}
    /\ cant_be_incomplete_array_map = {}
    /\ depth = 0
    /\ types = {TypeRec(VoidType, VoidDescriptor)}
    /\ stack = <<>>
    /\ ret = NoRet
    /\ holder = NoHolder
    /\ results = {}
    /\ dindex = NodeRoots
    /\ enomem = MaxEnomem
    /\ call = NoCall

SpecNode == InitNode /\ [][Next]_vars

\* The typedef chains hold no compound, and none of their insertions fails.
InitChain ==
    /\ map = {}
    /\ cant_be_incomplete_array_map = {}
    /\ depth = 0
    /\ types = {TypeRec(VoidType, VoidDescriptor)}
    /\ stack = <<>>
    /\ ret = NoRet
    /\ holder = NoHolder
    /\ results = {}
    /\ dindex = ChainRoots
    /\ enomem = 0
    /\ call = NoCall

NextChain ==
    \/ \E die \in dindex : drgn_type_from_dwarf(die)
    \/ Enter
    \/ Resume

SpecChain == InitChain /\ [][NextChain]_vars

\* The failing resolutions of every kind next to one that succeeds: the chain
\* that runs into the depth limit, a typedef of a DIE with an unknown tag, a
\* DIE whose language lookup fails, and insertions that may fail.
DepthRoots == {XDie(1), DieInt, DieTdBad, DieBadLang}

InitDepth ==
    /\ map = {}
    /\ cant_be_incomplete_array_map = {}
    /\ depth = 0
    /\ types = {TypeRec(VoidType, VoidDescriptor)}
    /\ stack = <<>>
    /\ ret = NoRet
    /\ holder = NoHolder
    /\ results = {}
    /\ dindex = DepthRoots
    /\ enomem = MaxEnomem
    /\ call = NoCall

SpecDepth == InitDepth /\ [][NextChain]_vars

\* Chains of qualifier DIEs over a base type, an array and void, in both
\* orders and with a tag twice, next to the DIEs they qualify.
QualRoots == {DieCV, DieVC, DieCC, DieRA, DieCVoid, DieInt, DieArr, DieC}

InitQual ==
    /\ map = {}
    /\ cant_be_incomplete_array_map = {}
    /\ depth = 0
    /\ types = {TypeRec(VoidType, VoidDescriptor)}
    /\ stack = <<>>
    /\ ret = NoRet
    /\ holder = NoHolder
    /\ results = {}
    /\ dindex = QualRoots
    /\ enomem = MaxEnomem
    /\ call = NoCall

SpecQual == InitQual /\ [][NextChain]_vars

\* Declarations whose name the index holds once, twice or not at all, with
\* another tag only, with a definition that cannot be materialized, and one
\* whose search fails; and a definition asked for directly.
DeclRoots == {DieDeclOne, DieDefOne, DieDeclTwo, DieDeclNone, DieDeclUnion,
              DieDeclEnum, DieDeclBad, DieDeclIerr}

InitDecl ==
    /\ map = {}
    /\ cant_be_incomplete_array_map = {}
    /\ depth = 0
    /\ types = {TypeRec(VoidType, VoidDescriptor)}
    /\ stack = <<>>
    /\ ret = NoRet
    /\ holder = NoHolder
    /\ results = {}
    /\ dindex = DeclRoots
    /\ enomem = MaxEnomem
    /\ call = NoCall

SpecDecl == InitDecl /\ [][Next]_vars

\* The searches a caller outside makes with drgn_dwarf_type_find().
FindKinds == {"int", "bool", "float", "struct", "typedef"}

FindNames == {"int", "real", "cplx", "odd", "two", "ierr"}

FindFiles == {"", "a.c", "b.c"}

InitFind ==
    /\ map = {}
    /\ cant_be_incomplete_array_map = {}
    /\ depth = 0
    /\ types = {TypeRec(VoidType, VoidDescriptor)}
    /\ stack = <<>>
    /\ ret = NoRet
    /\ holder = NoHolder
    /\ results = {}
    /\ dindex = {}
    /\ enomem = 0
    /\ call = NoCall

NextFind ==
    \/ \E kind \in FindKinds, name \in FindNames, filename \in FindFiles :
         drgn_dwarf_type_find(kind, name, filename)
    \/ FindTypeNext
    \/ FindTypeCheck
    \/ Enter
    \/ Resume

SpecFind == InitFind /\ [][NextFind]_vars

\* The subranges decoded: every combination of a DW_AT_upper_bound and a
\* DW_AT_count, each absent or of a form and a word; "string" is a form that
\* holds no number.  The arrays resolved have one such subrange each.
Words == {U64(0), U64(65535), <<32768, 0, 0, 0>>, UINT64_MAX_1, UINT64_MAX}

Attrs ==
    {NoAttr, Attr("string", U64(0))}
    \cup {Attr(form, word) : form \in {"udata", "sdata"}, word \in Words}

Subranges == {Subrange(upper_bound, count) : upper_bound \in Attrs, count \in Attrs}

DimRoots == {DieArrEmpty, DieArrHuge, DieArrOver}

InitDim ==
    /\ map = {}
    /\ cant_be_incomplete_array_map = {}
    /\ depth = 0
    /\ types = {TypeRec(VoidType, VoidDescriptor)}
    /\ stack = <<>>
    /\ ret = NoRet
    /\ holder = NoHolder
    /\ results = {}
    /\ dindex = DimRoots
    /\ enomem = 0
    /\ call = NoCall

NextDim ==
    \/ \E sub \in Subranges : SubrangeLength(sub)
    \/ \E die \in dindex : drgn_type_from_dwarf(die)
    \/ Enter
    \/ Resume

SpecDim == InitDim /\ [][NextDim]_vars

\* The member DIEs decoded: every combination of the four attributes, each
\* absent, of a form that holds no number, or a number, with a bit field
\* size, a byte order and an evaluated member type.
MemberAttrs(values) ==
    {NoAttr, Attr("string", U64(0))} \cup {Attr("udata", U64(n)) : n \in values}

MemberDies ==
    {MemberDie(data_bit_offset, data_member_location, bit_offset, byte_size,
               U64(bit_field_size), little_endian, type) :
        data_bit_offset \in MemberAttrs({37}),
        data_member_location \in MemberAttrs({0, 4}),
        bit_offset \in MemberAttrs({29, 38}),
        byte_size \in MemberAttrs({4}),
        bit_field_size \in {0, 3},
        little_endian \in BOOLEAN,
        type \in {Evaluated("other", FALSE, U64(0)),
                  Evaluated("ok", FALSE, U64(0)),
                  Evaluated("ok", TRUE, U64(4)),
                  Evaluated("ok", TRUE, U64(8))}}

InitMember ==
    /\ map = {}
    /\ cant_be_incomplete_array_map = {}
    /\ depth = 0
    /\ types = {TypeRec(VoidType, VoidDescriptor)}
    /\ stack = <<>>
    /\ ret = NoRet
    /\ holder = NoHolder
    /\ results = {}
    /\ dindex = {}
    /\ enomem = 0
    /\ call \in {[fn |-> "parse_member_offset", pc |-> "call", m |-> m,
                   out |-> Offset("none", U64(0))] : m \in MemberDies}

NextMember == ParseMemberOffset

SpecMember == InitMember /\ [][NextMember]_vars

\* The variables a caller outside looks up: every combination of a type, a
\* location, a constant value, an endianity, an ELF byte order and a bias.
Variable(type, location, const_value, endianity, elf_little, bias) ==
    [type |-> type, location |-> location, const_value |-> const_value,
     endianity |-> endianity, elf_little |-> elf_little, bias |-> bias]

Endianities == {"absent", "default", "little", "big", "other", "invalid"}

Locations ==
    {Location("absent", <<>>), Location("invalid", <<>>)}
    \cup {Location("exprloc", ops) :
             ops \in {<<>>, <<Op("addr", U64(4096))>>,
                      <<Op("addr", UINT64_MAX)>>, <<Op("fbreg", U64(8))>>,
                      <<Op("addr", U64(4096)), Op("addr", U64(4096))>>,
                      <<Op("addr", U64(4096)), Op("plus_uconst", U64(8))>>}}

LocatedVariables ==
    {Variable(type, location, const_value, endianity, elf_little, bias) :
        type \in {DieS8, DieTdBad},
        location \in Locations,
        const_value \in {NoConstValue, ConstValue("data1", 200, <<>>)},
        endianity \in Endianities,
        elf_little \in BOOLEAN,
        bias \in {U64(0), U64(2)}}

InitVar ==
    /\ map = {}
    /\ cant_be_incomplete_array_map = {}
    /\ depth = 0
    /\ types = {TypeRec(VoidType, VoidDescriptor)}
    /\ stack = <<>>
    /\ ret = NoRet
    /\ holder = NoHolder
    /\ results = {}
    /\ dindex = {}
    /\ enomem = MaxEnomem
    /\ call = NoCall

NextVar ==
    \/ \E v \in LocatedVariables : drgn_dwarf_object_find(v)
    \/ drgn_object_from_dwarf_variable
    \/ Enter
    \/ Resume

SpecVar == InitVar /\ [][NextVar]_vars

\* The variables without DW_AT_location a caller outside looks up: every
\* combination of a type, a constant value, an endianity and an ELF byte order.
ConstValues ==
    {ConstValue("block", 0, block) :
        block \in {<<>>, <<52>>, <<52, 18>>, <<52, 18, 255, 0>>,
                   <<1, 2, 3, 4, 5, 6, 7, 8, 9>>}}
    \cup {ConstValue("data1", 200, <<>>), ConstValue("data2", 32769, <<>>),
          ConstValue("sdata", -1, <<>>), ConstValue("udata", 200, <<>>),
          ConstValue("string", 0, <<>>)}

ConstantVariables ==
    {Variable(type, Location("absent", <<>>), const_value, endianity,
              elf_little, U64(0)) :
        type \in {DieS8, DieU16, DieRealF, DieDefOne},
        const_value \in ConstValues,
        endianity \in {"absent", "little", "big", "other"},
        elf_little \in BOOLEAN}

InitConst ==
    /\ map = {}
    /\ cant_be_incomplete_array_map = {}
    /\ depth = 0
    /\ types = {TypeRec(VoidType, VoidDescriptor)}
    /\ stack = <<>>
    /\ ret = NoRet
    /\ holder = NoHolder
    /\ results = {}
    /\ dindex = {}
    /\ enomem = 0
    /\ call = NoCall

NextConst ==
    \/ \E v \in ConstantVariables : drgn_dwarf_object_find(v)
    \/ drgn_object_from_dwarf_variable
    \/ Enter
    \/ Resume

SpecConst == InitConst /\ [][NextConst]_vars

\* DIE graphs with a cycle of DW_AT_type references that are resolved at
\* once (typedefs, a pointer and a qualifier, an array element, a bit field
\* read for its size), next to cycles through a member or a parameter that
\* is held as a thunk, and to bit fields that are well formed.  None of the
\* insertions fails, and a run asks for the DIEs of one graph.
CycleRoots ==
    {{DieTdA}, {DiePtrSelf}, {DieArrSelf}, {DieBits}, {DieFnSelf}, {DieNode},
     {DieFlags, DieFlagsTd}, {DieFlagsBE}}

InitCycle ==
    /\ map = {}
    /\ cant_be_incomplete_array_map = {}
    /\ depth = 0
    /\ types = {TypeRec(VoidType, VoidDescriptor)}
    /\ stack = <<>>
    /\ ret = NoRet
    /\ holder = NoHolder
    /\ results = {}
    /\ dindex \in CycleRoots
    /\ enomem = 0
    /\ call = NoCall

SpecCycle == InitCycle /\ [][Next]_vars

\* A call in progress is run to its end: the code between two calls of the
\* resolver is sequential and takes no input.
FairCycle == SpecCycle /\ WF_vars(Enter) /\ WF_vars(Resume)

\* Function types: well-formed and malformed lists of children, a child of
\* another tag, a parameter without DW_AT_type and a return type that fails.
FunctionRoots ==
    {DieFn, DieFnVoid, DieFnOrder, DieFnTwice, DieFnSkip, DieFnNoType,
     DieFnBadRet}

InitFunction ==
    /\ map = {}
    /\ cant_be_incomplete_array_map = {}
    /\ depth = 0
    /\ types = {TypeRec(VoidType, VoidDescriptor)}
    /\ stack = <<>>
    /\ ret = NoRet
    /\ holder = NoHolder
    /\ results = {}
    /\ dindex = FunctionRoots
    /\ enomem = 0
    /\ call = NoCall

SpecFunction == InitFunction /\ [][Next]_vars

(***************************************************************************)
(* What a DIE encodes, read off the debugging information alone, and what  *)
(* a descriptor is once its typedefs are looked through.                   *)
(***************************************************************************)
RECURSIVE EncodesIncompleteArray(_)
EncodesIncompleteArray(die) ==
    CASE dwarf_tag(die) = "array_type" -> ~Dimensions(die)[1].is_complete
      [] dwarf_tag(die) = "typedef" ->
            dwarf_type(die) # NoDie /\ EncodesIncompleteArray(dwarf_type(die))
      [] OTHER -> FALSE

RECURSIVE StripTypedefs(_, _)
StripTypedefs(T, h) ==
    IF TypeOf(T, h).kind = "typedef"
    THEN StripTypedefs(T, TypeOf(T, h).type)
    ELSE h

IsIncompleteArray(T, h) ==
    LET u == TypeOf(T, StripTypedefs(T, h))
    IN  u.kind = "array" /\ ~u.is_complete

IsZeroLengthArray(T, h) ==
    LET u == TypeOf(T, StripTypedefs(T, h))
    IN  u.kind = "array" /\ u.is_complete /\ u.length = U64(0)

C2_SameTypeWhenIncompleteForbidden ==
    /\ \A r1 \in results : \A r2 \in results :
          (r1.die = r2.die /\ ~r1.can_be_incomplete_array
                           /\ ~r2.can_be_incomplete_array)
              => (r1.type = r2.type /\ r1.qualifiers = r2.qualifiers)
    /\ \A i \in 1..Len(stack) :
          (stack[i].pc = "dispatch" /\ ~stack[i].can_be_incomplete_array)
              => ~\E r \in results : /\ r.die = stack[i].die
                                     /\ ~r.can_be_incomplete_array

(***************************************************************************)
(* C3: a resolution that forbids an incomplete array, of a DIE encoding an *)
(* incomplete array or a typedef of one, returns a type whose outermost    *)
(* array is complete with length 0.                                        *)
(***************************************************************************)
C3_ForbiddenYieldsZeroLength ==
    \A r \in results :
        (~r.can_be_incomplete_array /\ EncodesIncompleteArray(r.die))
            => IsZeroLengthArray(types, r.type)

(***************************************************************************)
(* C4: every successful resolution that is handed an is_incomplete_array   *)
(* out-parameter assigns it, to whether the DIE encodes an incomplete      *)
(* array or a typedef of one; a resolution served from the memo included.  *)
(***************************************************************************)
C4_OutParameterReported ==
    (ret.err = "ok" /\ ret.has_ret)
        => (ret.written
            /\ ret.is_incomplete_array = EncodesIncompleteArray(ret.die))

(***************************************************************************)
(* C5: the evaluated type of a union member, of a structure member that is *)
(* not the last, of the only member of a structure, and the element type   *)
(* of an array, is never an incomplete array, nor a typedef or a qualified *)
(* form of one.                                                            *)
(***************************************************************************)
C5_NoIncompleteArrayInside ==
    \A t \in types :
        /\ \A i \in 1..Len(t.descriptor.members) :
              (/\ ~t.descriptor.members[i].thunk
               /\ \/ t.descriptor.kind = "union"
                  \/ i < Len(t.descriptor.members)
                  \/ Len(t.descriptor.members) = 1)
                 => ~IsIncompleteArray(types, t.descriptor.members[i].type)
        /\ t.descriptor.kind = "array"
              => ~IsIncompleteArray(types, t.descriptor.type)

(***************************************************************************)
(* C6: one unbounded array DIE that is the last member of one structure    *)
(* and a member that is not the last of another evaluates to an incomplete *)
(* array in the first and to an array of length 0 in the second, in either *)
(* order and however often.                                                *)
(***************************************************************************)
MemberTypes(site, i) ==
    {t.descriptor.members[i].type :
        t \in {u \in types : /\ u.handle[1] = site[1]
                             /\ ~u.descriptor.members[i].thunk}}

C6_LastVersusNotLast ==
    /\ \A h \in MemberTypes(DieLast, 2) :
          /\ TypeOf(types, h).kind = "array"
          /\ ~TypeOf(types, h).is_complete
    /\ \A h \in MemberTypes(DieFirst, 1) :
          /\ TypeOf(types, h).kind = "array"
          /\ TypeOf(types, h).is_complete
          /\ TypeOf(types, h).length = U64(0)

C6_BothEvaluated ==
    /\ MemberTypes(DieLast, 2) # {}
    /\ MemberTypes(DieFirst, 1) # {}
    /\ dwarf_type(DieLast) = NoDie
    /\ DieInfo(DieLast).members[2].type = DieInfo(DieFirst).members[1].type

(***************************************************************************)
(* C7: for a structure S with a member of type pointer to S, no resolution *)
(* is made while S is dispatched; the member evaluated later is a pointer  *)
(* whose referenced type is the descriptor memoized for S, the one holding *)
(* the member, and no descriptor for S is created once S is memoized.      *)
(***************************************************************************)
NodeTypes == {t \in types : t.handle[1] = DieNode[1]}

C7_PointsToMemoized ==
    /\ \A i \in 1..Len(stack) : stack[i].die = DieNode => i = 1
    /\ \A t \in NodeTypes :
          LET m == t.descriptor.members[1]
          IN  ~m.thunk =>
                /\ TypeOf(types, m.type).kind = "pointer"
                /\ TypeOf(types, m.type).type = t.handle
                /\ \E e \in map : e.key = DieNode /\ e.type = t.handle
    /\ \A e1 \in map : \A e2 \in map :
          (e1.key = DieNode /\ e2.key = DieNode) => e1 = e2

C7_SelfReference ==
    /\ [](C7_PointsToMemoized)
    /\ [][(\E e \in map : e.key = DieNode)
             => Handles(NodeTypes') = Handles(NodeTypes)]_vars

C7_MemberEvaluated ==
    \E t \in NodeTypes :
        /\ ~t.descriptor.members[1].thunk
        /\ DieInfo(DieNode).members[1].type = DiePtr
        /\ dwarf_type(DiePtr) = DieNode

(***************************************************************************)
(* C8: the depth counter stays within 0..1000, and a resolution entered    *)
(* with the counter at 1000 or more returns the recursion error with no    *)
(* memo lookup and no dispatch: maps, types and counter are left alone.    *)
(***************************************************************************)
C8_DepthBounded ==
    /\ [](depth \in 0..MaxDepth)
    /\ [][(stack # <<>> /\ Head(stack).pc = "enter" /\ depth >= MaxDepth)
             => /\ ret'.err = "recursion"
                /\ ret'.die = Head(stack).die
                /\ stack' = Tail(stack)
                /\ UNCHANGED <<map, cant_be_incomplete_array_map, depth,
                               types>>]_vars

\* The DIE refused at the limit has a memo entry, which is not consulted.
C8_RefusedThoughMemoized ==
    /\ ret.err = "recursion"
    /\ ret.depth0 = MaxDepth
    /\ ret.pre # {}

(***************************************************************************)
(* C9: from an empty cache and depth 0, resolving the head of a chain of   *)
(* 1001 typedefs fails with the recursion error, and resolving the head of *)
(* a chain of 999 typedefs that ends in a base type or in void succeeds.   *)
(***************************************************************************)
ChainTypedefs(die) ==
    IF die[1] = "X" THEN XLen - die[2] + 1 ELSE YLen - die[2] + 1

C9_ChainLimit ==
    (/\ stack = <<>>
     /\ ret.err # "none"
     /\ ret.cold
     /\ ret.depth0 = 0)
        => /\ ChainTypedefs(ret.die) >= MaxDepth + 1 => ret.err = "recursion"
           /\ ChainTypedefs(ret.die) <= MaxDepth - 1 => ret.err = "ok"

C9_LongChainFails ==
    /\ stack = <<>>
    /\ ret.cold
    /\ ret.depth0 = 0
    /\ ret.die = XDie(1)
    /\ ChainTypedefs(ret.die) = MaxDepth + 1
    /\ ret.err = "recursion"

(***************************************************************************)
(* C10: a resolution of a DIE that fails leaves both maps without a new    *)
(* entry for that DIE, and no step removes or changes an entry.            *)
(***************************************************************************)
C10_FailureLeavesMaps ==
    /\ [](ret.err \notin {"ok", "none"}
            => /\ dwarf_type_map_search(map, ret.die) = ret.pre
               /\ dwarf_type_map_search(cant_be_incomplete_array_map, ret.die)
                     = ret.cpre)
    /\ [][/\ map \subseteq map'
          /\ cant_be_incomplete_array_map \subseteq
                 cant_be_incomplete_array_map']_vars

\* An insertion fails after the nested resolution has memoized its result.
C10_FailedAfterNestedSuccess ==
    /\ ret.err = "enomem"
    /\ ret.die = DieTd
    /\ \E e \in map : e.key = DieArr
    /\ dwarf_type_map_search(map, DieTd) = {}

(***************************************************************************)
(* C11: when a resolution returns, with success or with any error, the     *)
(* depth counter has the value it had when the resolution was entered; it  *)
(* is 0 whenever no resolution is under way, and a well-formed DIE asked   *)
(* for after failed resolutions fails for lack of memory at most.          *)
(***************************************************************************)
C11_DepthRestored ==
    /\ ret.err # "none" => depth = ret.depth0
    /\ stack = <<>> => depth = 0
    /\ (stack = <<>> /\ ret.die = DieInt /\ ret.err # "none")
          => ret.err \in {"ok", "enomem"}

\* A well-formed DIE resolves in a cache in which an insertion failed before.
C11_SucceedsAfterFailure ==
    /\ stack = <<>>
    /\ depth = 0
    /\ ret.die = DieInt
    /\ ret.err = "ok"
    /\ ~ret.hit
    /\ enomem < MaxEnomem

(***************************************************************************)
(* C12: a named declaration resolves to the complete type of the           *)
(* definition when the index holds exactly one DIE of its tag and name,    *)
(* and to an incomplete type of its kind and name when the index holds     *)
(* none or several; an error of the search or of the materialization of    *)
(* the definition is returned, not replaced by the incomplete type.        *)
(***************************************************************************)
KindOfTag(tag) ==
    CASE tag = "structure_type" -> "struct"
      [] tag = "union_type" -> "union"
      [] tag = "class_type" -> "class"
      [] tag = "enumeration_type" -> "enum"
      [] OTHER -> "none"

DefinitionsOf(die) == drgn_dwarf_index_iterator(dwarf_tag(die), dwarf_diename(die))

C12_DeclarationResolved ==
    /\ \A r \in results :
          SearchesComplete(r.die) =>
             LET t == TypeOf(types, r.type)
             IN  /\ t.kind = KindOfTag(dwarf_tag(r.die))
                 /\ t.name = dwarf_diename(r.die)
                 /\ IF Len(DefinitionsOf(r.die)) = 1
                    THEN /\ t.is_complete
                         /\ \E q \in results : /\ q.die = DefinitionsOf(r.die)[1]
                                               /\ q.type = r.type
                    ELSE ~t.is_complete
    /\ (ret.err # "none" /\ ret.die = DieDeclIerr) => ret.err = "other"
    /\ (ret.err # "none" /\ ret.die = DieDeclBad) => ret.err = "other"

C12_OneTwoNone ==
    /\ \E r \in results : r.die = DieDeclOne
    /\ \E r \in results : r.die = DieDeclTwo
    /\ \E r \in results : r.die = DieDeclNone
    /\ \E r \in results : r.die = DieDeclEnum
    /\ Len(DefinitionsOf(DieDeclOne)) = 1
    /\ Len(DefinitionsOf(DieDeclTwo)) = 2
    /\ Len(DefinitionsOf(DieDeclNone)) = 0
    /\ ret.die = DieDeclBad
    /\ ret.err = "other"

(***************************************************************************)
(* C13: once a declaration has resolved to the complete type of its one    *)
(* definition, the primary map holds an entry for the declaration and an   *)
(* entry for the definition with that same type, and the declaration is    *)
(* not dispatched, so the index not searched, while it has an entry.       *)
(***************************************************************************)
C13_DeclarationMemoized ==
    /\ \A r \in results :
          (SearchesComplete(r.die) /\ Len(DefinitionsOf(r.die)) = 1) =>
             /\ \E e \in map : e.key = r.die /\ e.type = r.type
             /\ \E e \in map : /\ e.key = DefinitionsOf(r.die)[1]
                               /\ e.type = r.type
    /\ \A i \in 1..Len(stack) :
          (stack[i].pc = "dispatch" /\ SearchesComplete(stack[i].die))
             => dwarf_type_map_search(map, stack[i].die) = {}

\* The declaration is asked for again and answered from the map.
C13_AnsweredFromMap ==
    /\ ret.err = "ok"
    /\ ret.hit
    /\ ret.die = DieDeclOne
    /\ \E e \in map : e.key = DieDefOne /\ e.type = ret.type

(***************************************************************************)
(* C14: a chain of qualifier DIEs over a DIE X resolves to the descriptor  *)
(* X resolves to, with the qualifiers of X united with the bit of every    *)
(* tag of the chain, whatever the order of the tags; a qualifier DIE       *)
(* creates no descriptor.                                                  *)
(***************************************************************************)
RECURSIVE QualifiedDie(_)
QualifiedDie(die) ==
    IF die # NoDie /\ dwarf_tag(die) \in QualifierTags
    THEN QualifiedDie(dwarf_type(die))
    ELSE die

RECURSIVE ChainQualifiers(_)
ChainQualifiers(die) ==
    IF die # NoDie /\ dwarf_tag(die) \in QualifierTags
    THEN {QualifierOf(dwarf_tag(die))} \cup ChainQualifiers(dwarf_type(die))
    ELSE {}

C14_ChainOfQualifiers ==
    \A r \in results :
        dwarf_tag(r.die) \in QualifierTags =>
           LET x == QualifiedDie(r.die)
           IN  /\ x = NoDie =>
                    /\ r.type = VoidType
                    /\ r.qualifiers = ChainQualifiers(r.die)
               /\ x # NoDie =>
                    /\ \E q \in results : q.die = x /\ q.can_be_incomplete_array
                    /\ \A q \in results :
                          (q.die = x /\ q.can_be_incomplete_array) =>
                             /\ r.type = q.type
                             /\ r.qualifiers =
                                   q.qualifiers \cup ChainQualifiers(r.die)

C14_NoDescriptorCreated ==
    /\ [](C14_ChainOfQualifiers)
    /\ [][(stack # <<>> /\ dwarf_tag(Head(stack).die) \in QualifierTags)
             => types' = types]_vars

\* The two orders of const and volatile have resolved, to the same result.
C14_BothOrders ==
    \E r1 \in results : \E r2 \in results :
        /\ r1.die = DieCV
        /\ r2.die = DieVC
        /\ r1.type = r2.type
        /\ r1.qualifiers = r2.qualifiers
        /\ r1.qualifiers = {"const", "volatile"}
        /\ \E r3 \in results : r3.die = DieCC /\ r3.qualifiers = {"const"}

(***************************************************************************)
(* C15: drgn_dwarf_type_find() examines the DIEs of the tag mapped from    *)
(* the kind and of the name asked for that pass the filename filter, in    *)
(* the order of the name index, skipping every one that resolves to a type *)
(* of another kind; it returns the type of the first that resolves to the  *)
(* kind asked for, returns at once the error of a candidate that fails to  *)
(* resolve, and returns "not found" once the iterator is exhausted.        *)
(***************************************************************************)
\* The kind a well-formed DIE resolves to, read off the DIE alone.
KindOfDie(die) ==
    IF dwarf_tag(die) = "base_type"
    THEN CASE dwarf_encoding(die) = "boolean" -> "bool"
           [] dwarf_encoding(die) = "float" -> "float"
           [] dwarf_encoding(die) \in {"signed", "unsigned"} -> "int"
           [] dwarf_encoding(die) = "complex_float" -> "complex"
           [] OTHER -> "none"
    ELSE KindOfTag(dwarf_tag(die))

Candidates(kind, name, filename) ==
    SelectSeq(drgn_dwarf_index_iterator(KindTag(kind), name),
              LAMBDA d : die_matches_filename(d, filename))

C15_FirstOfKind ==
    (call.fn = "find_type" /\ call.pc = "done")
        => LET cands == Candidates(call.kind, call.name, call.filename)
               ex == call.examined
               last == ex[Len(ex)]
               skipped(i) == ex[i].err = "ok" /\ ex[i].kind # call.kind
           IN  /\ Len(ex) <= Len(cands)
               /\ \A i \in 1..Len(ex) :
                     /\ ex[i].die = cands[i]
                     /\ ex[i].err = "ok" => ex[i].kind = KindOfDie(ex[i].die)
                     /\ i < Len(ex) => skipped(i)
               /\ call.err = "ok"
                     => /\ ex # <<>>
                        /\ last.err = "ok"
                        /\ last.kind = call.kind
                        /\ call.type = last.type
                        /\ \E r \in results : /\ r.die = last.die
                                               /\ r.type = call.type
                                               /\ r.qualifiers = call.qualifiers
               /\ call.err = "not_found"
                     => /\ Len(ex) = Len(cands)
                        /\ \A i \in 1..Len(ex) : skipped(i)
               /\ call.err \notin {"ok", "not_found"}
                     => \/ ex # <<>> /\ last.err = call.err
                        \/ /\ call.err = drgn_dwarf_index_iterator_error(
                                              KindTag(call.kind), call.name)
                           /\ \A i \in 1..Len(ex) : skipped(i)

\* The search for the int "real" has skipped a float and a bool of that name
\* and returned the third DIE of that name, an int.
C15_SkippedTwoThenFound ==
    /\ call.fn = "find_type"
    /\ call.pc = "done"
    /\ call.kind = "int"
    /\ call.name = "real"
    /\ call.err = "ok"
    /\ Len(call.examined) = 3
    /\ call.examined[3].die = DieRealI
    /\ TypeOf(types, call.type).kind = "int"

(***************************************************************************)
(* C16: what drgn_dwarf_object_find() gives for a variable DIE.            *)
(***************************************************************************)
\* DW_AT_location is present and is the one operation DW_OP_addr.
OneAddr(v) ==
    /\ v.location.form = "exprloc"
    /\ Len(v.location.ops) = 1
    /\ v.location.ops[1].atom = "addr"

\* DW_AT_endianity is absent or one of DW_END_default, _little and _big.
EndianityKnown(v) == v.endianity \in {"absent", "default", "little", "big"}

LittleEndianOf(v) ==
    IF v.endianity \in {"absent", "default"} THEN v.elf_little
    ELSE v.endianity = "little"

IsReferenceAt(v) ==
    /\ call.err = "ok"
    /\ call.obj.kind = "reference"
    /\ call.obj.address = Add64(v.location.ops[1].number, v.bias).sum

\* C16 as stated: with DW_AT_location present the variable is a reference
\* object at operand + bias (modulo 2^64) when the location is the one
\* operation DW_OP_addr and a malformed-DWARF error otherwise, and
\* DW_AT_const_value is not consulted; with the location absent and
\* DW_AT_const_value present it is a value object; with both absent the
\* call fails with a lookup error.
C16_AsStated ==
    (call.fn = "find_object" /\ call.pc = "done")
        => LET v == call.var
           IN  /\ OneAddr(v) => IsReferenceAt(v)
               /\ (v.location.form # "absent" /\ ~OneAddr(v))
                     => call.err = "other"
               /\ (v.location.form = "absent" /\ v.const_value.form # "absent")
                     => /\ call.err = "ok"
                        /\ call.obj.kind \in {"signed", "unsigned", "buffer"}
               /\ (v.location.form = "absent" /\ v.const_value.form = "absent")
                     => call.err = "lookup"

\* C16, amended: the call returns the error of the resolution of the
\* variable's type when that fails.  Otherwise, with DW_AT_location present,
\* it gives a malformed-DWARF error unless the location is the one operation
\* DW_OP_addr, and then a reference object at operand + bias (modulo 2^64)
\* in the variable's byte order when DW_AT_endianity is absent or a known
\* value and a malformed-DWARF error when it is not; DW_AT_const_value is
\* not consulted.  With the location absent and DW_AT_const_value present
\* the result is that of the decoding of the constant, a value object when
\* it succeeds; with both absent the call fails with a lookup error.
C16_VariableObject ==
    (call.fn = "find_object" /\ call.pc = "done")
        => LET v == call.var
           IN  IF call.type_err # "ok"
               THEN call.err = call.type_err /\ call.obj = NoObject
               ELSE /\ (OneAddr(v) /\ EndianityKnown(v))
                          => /\ IsReferenceAt(v)
                             /\ call.obj.little_endian = LittleEndianOf(v)
                             /\ \E r \in results : /\ r.die = v.type
                                                    /\ r.type = call.obj.type
                    /\ (OneAddr(v) /\ ~EndianityKnown(v)) => call.err = "other"
                    /\ (v.location.form # "absent" /\ ~OneAddr(v))
                          => call.err = "other"
                    /\ v.location.form # "absent"
                          => call.obj.kind \in {"none", "reference"}
                    /\ (v.location.form = "absent"
                            /\ v.const_value.form # "absent")
                          => /\ call.err \in {"ok", "other"}
                             /\ call.err = "ok"
                                   => call.obj.kind \in {"signed", "unsigned",
                                                         "buffer"}
                    /\ (v.location.form = "absent"
                            /\ v.const_value.form = "absent")
                          => call.err = "lookup"

\* A variable at the one operation DW_OP_addr 2^64 - 1 with the bias 2 and
\* a constant value besides has become a reference object at the address 1.
C16_ReferenceWraps ==
    /\ call.fn = "find_object"
    /\ call.pc = "done"
    /\ call.var.location.ops = <<Op("addr", UINT64_MAX)>>
    /\ call.var.bias = U64(2)
    /\ call.var.const_value.form # "absent"
    /\ call.err = "ok"
    /\ call.obj.kind = "reference"
    /\ call.obj.address = U64(1)

(***************************************************************************)
(* C17: the decoding of DW_AT_const_value for a variable whose type has    *)
(* resolved.  A block is refused when DW_AT_endianity is not a known value *)
(* or when it is shorter than the bytes that hold the bits of the type,    *)
(* and otherwise its first bytes become the value, in the byte order of    *)
(* the variable.  Any other form is read as a signed number when the       *)
(* storage kind of the type is signed and as an unsigned number when it is *)
(* unsigned, the value being that number in the bits of the type, and      *)
(* fails when the form holds no number; for every other storage kind it    *)
(* fails.                                                                  *)
(***************************************************************************)
\* The storage kind and the bits of a well-formed type DIE, read off the DIE.
StorageOfDie(die) ==
    CASE KindOfDie(die) = "int" ->
           IF dwarf_encoding(die) = "signed" THEN "signed" ELSE "unsigned"
      [] KindOfDie(die) = "bool" -> "unsigned"
      [] KindOfDie(die) = "float" -> "float"
      [] OTHER -> "buffer"

BitsOfDie(die) == 8 * dwarf_bytesize(die)

\* The number a form holds, as a signed and as an unsigned number.
SignedOf(attr) ==
    CASE attr.form = "data1" /\ attr.raw >= 128 -> attr.raw - 256
      [] attr.form = "data2" /\ attr.raw >= 32768 -> attr.raw - 65536
      [] OTHER -> attr.raw

\* The bytes of a buffer as a number, in the byte order given.
RECURSIVE FromBytes(_, _)
FromBytes(buf, little_endian) ==
    IF buf = <<>> THEN 0
    ELSE IF little_endian
    THEN Head(buf) + 256 * FromBytes(Tail(buf), little_endian)
    ELSE 256 * FromBytes(SubSeq(buf, 1, Len(buf) - 1), little_endian)
         + buf[Len(buf)]

C17_ConstantDecoded ==
    (/\ call.fn = "find_object"
     /\ call.pc = "done"
     /\ call.type_err = "ok"
     /\ call.var.location.form = "absent"
     /\ call.var.const_value.form # "absent")
        => LET v == call.var
               attr == v.const_value
               kind == StorageOfDie(v.type)
               bits == BitsOfDie(v.type)
               bytes == (bits + 7) \div 8
               obj == call.obj
           IN  IF attr.form = "block"
               THEN IF EndianityKnown(v) /\ Len(attr.block) >= bytes
                    THEN /\ call.err = "ok"
                         /\ obj.kind = kind
                         /\ obj.bit_size = bits
                         /\ obj.little_endian = LittleEndianOf(v)
                         /\ Len(obj.buf) = bytes
                         /\ \A i \in 1..bytes : obj.buf[i] = attr.block[i]
                    ELSE call.err = "other"
               ELSE IF kind \in {"signed", "unsigned"}
                       /\ attr.form \in ConstantForms
               THEN /\ call.err = "ok"
                    /\ obj.kind = kind
                    /\ obj.bit_size = bits
                    /\ (obj.value - (IF kind = "signed" THEN SignedOf(attr)
                                       ELSE attr.raw)) % (2 ^ bits) = 0
                    /\ kind = "signed"
                          => obj.value \in -(2 ^ (bits - 1))..(2 ^ (bits - 1) - 1)
                    /\ kind = "unsigned" => obj.value \in 0..(2 ^ bits - 1)
               ELSE call.err = "other"

\* The unsigned short with the block <<0x34, 0x12>> on a little-endian file
\* has become the value 0x1234.
C17_BlockLittleEndian ==
    /\ call.fn = "find_object"
    /\ call.pc = "done"
    /\ call.var.type = DieU16
    /\ call.var.const_value = ConstValue("block", 0, <<52, 18>>)
    /\ call.var.endianity = "absent"
    /\ call.var.elf_little
    /\ call.err = "ok"
    /\ call.obj.kind = "unsigned"
    /\ FromBytes(call.obj.buf, call.obj.little_endian) = 4660

(***************************************************************************)
(* C18: subrange_length() on a subrange whose bound is read as the 64-bit  *)
(* word n.  With neither DW_AT_upper_bound nor DW_AT_count the dimension   *)
(* is incomplete.  DW_AT_upper_bound is looked at before DW_AT_count: of   *)
(* the form sdata and the value -1 it gives the length 0, otherwise the    *)
(* length n + 1 when n < 2^64 - 1 and the overflow error when n is         *)
(* 2^64 - 1.  DW_AT_count alone gives the length n.  The sum n + 1 is      *)
(* never taken modulo 2^64.                                                *)
(***************************************************************************)
HoldsWord(attr) == attr.form \in {"udata", "sdata", "data8"}

C18_SubrangeLength ==
    (call.fn = "subrange_length" /\ call.pc = "done")
        => LET sub == call.sub
               out == call.out
               n == IF sub.upper_bound.form # "absent" THEN sub.upper_bound.word
                    ELSE sub.count.word
           IN  /\ (sub.upper_bound.form = "absent" /\ sub.count.form = "absent")
                     => out.err = "ok" /\ ~out.is_complete
               /\ (sub.upper_bound.form = "sdata" /\ n = UINT64_MAX)
                     => out.err = "ok" /\ out.is_complete /\ out.length = U64(0)
               /\ (HoldsWord(sub.upper_bound)
                      /\ ~(sub.upper_bound.form = "sdata" /\ n = UINT64_MAX))
                     => IF n = UINT64_MAX
                        THEN out.err = "overflow"
                        ELSE /\ out.err = "ok"
                             /\ out.is_complete
                             /\ Add64(n, U64(1)).carry = 0
                             /\ out.length = Add64(n, U64(1)).sum
                             /\ Lt64(n, out.length)
               /\ (sub.upper_bound.form = "absent" /\ HoldsWord(sub.count))
                     => out.err = "ok" /\ out.is_complete /\ out.length = n

\* C18: the lengths subrange_length() gives, and the arrays made of them:
\* the upper bound (sdata) -1 makes an array of length 0, the upper bound
\* 2^64 - 2 one of length 2^64 - 1, and the upper bound 2^64 - 1 none.
C18_ArrayLengths ==
    /\ C18_SubrangeLength
    /\ \A r \in results :
          /\ r.die = DieArrEmpty
                => /\ TypeOf(types, r.type).is_complete
                   /\ TypeOf(types, r.type).length = U64(0)
          /\ r.die = DieArrHuge
                => /\ TypeOf(types, r.type).is_complete
                   /\ TypeOf(types, r.type).length = UINT64_MAX
          /\ r.die # DieArrOver
    /\ (ret.die = DieArrOver /\ ret.err # "none") => ret.err = "overflow"

\* The upper bound 2^64 - 2 beside a count has given the length 2^64 - 1, and
\* the array of that upper bound has been made with that length.
C18_LargestLength ==
    /\ call.fn = "subrange_length"
    /\ call.pc = "done"
    /\ call.sub = Subrange(Attr("udata", UINT64_MAX_1), Attr("udata", U64(0)))
    /\ call.out = Dimension("ok", TRUE, UINT64_MAX)
    /\ \E r \in results : /\ r.die = DieArrHuge
                           /\ TypeOf(types, r.type).length = UINT64_MAX

(***************************************************************************)
(* C19: the bit offset parse_member_offset() gives when every attribute it *)
(* reads holds a number.  It is DW_AT_data_bit_offset alone when that is   *)
(* present.  Otherwise it is 8 * DW_AT_data_member_location, 0 when that   *)
(* is absent, plus, when DW_AT_bit_offset is present, bit_offset on a      *)
(* big-endian image and 8 * byte_size - bit_offset - bit_field_size on a   *)
(* little-endian image, byte_size being DW_AT_byte_size or, that absent,   *)
(* the size of the evaluated member type, and the call failing when the    *)
(* evaluation fails or the type has no size.  The arithmetic is that of    *)
(* uint64_t.                                                               *)
(***************************************************************************)
\* The number an attribute of the decoded members holds, 0 when absent.
NumberOf(attr) == IF attr.form = "absent" THEN 0 ELSE attr.word[4]

\* The integer e as a uint64_t.
AsU64(word, e) ==
    IF e >= 0 THEN word = U64(e)
    ELSE Add64(word, U64(-e)) = [sum |-> U64(0), carry |-> 1]

C19_MemberBitOffset ==
    (call.fn = "parse_member_offset" /\ call.pc = "done")
        => LET m == call.m
               out == call.out
               present(attr) == attr.form # "absent"
               byte_offset == NumberOf(m.data_member_location)
               bit_offset == NumberOf(m.bit_offset)
               bit_field_size == m.bit_field_size[4]
               sized == present(m.byte_size) \/ (m.type.err = "ok" /\ m.type.has_size)
               byte_size == IF present(m.byte_size) THEN NumberOf(m.byte_size)
                            ELSE m.type.size[4]
           IN  IF present(m.data_bit_offset)
               THEN HoldsWord(m.data_bit_offset)
                        => out = Offset("ok", m.data_bit_offset.word)
               ELSE (/\ present(m.data_member_location)
                          => HoldsWord(m.data_member_location)
                     /\ present(m.bit_offset) => HoldsWord(m.bit_offset)
                     /\ present(m.byte_size) => HoldsWord(m.byte_size))
                    => IF ~present(m.bit_offset)
                       THEN out.err = "ok" /\ AsU64(out.ret, 8 * byte_offset)
                       ELSE IF ~m.little_endian
                       THEN /\ out.err = "ok"
                            /\ AsU64(out.ret, 8 * byte_offset + bit_offset)
                       ELSE IF sized
                       THEN /\ out.err = "ok"
                            /\ AsU64(out.ret, 8 * byte_offset + 8 * byte_size
                                                  - bit_offset - bit_field_size)
                       ELSE /\ out.err # "ok"
                            /\ m.type.err # "ok" => out.err = m.type.err

\* The bit field of 3 bits at DW_AT_bit_offset 29 of a member of 4 bytes at
\* byte 0, the size taken from the evaluated type, is at bit 0 on a
\* little-endian image.
C19_LittleEndianExample ==
    /\ call.fn = "parse_member_offset"
    /\ call.pc = "done"
    /\ call.m = MemberDie(NoAttr, Attr("udata", U64(0)), Attr("udata", U64(29)),
                          NoAttr, U64(3), TRUE, Evaluated("ok", TRUE, U64(4)))
    /\ call.out = Offset("ok", U64(0))

(***************************************************************************)
(* C20: every memo entry of a typedef DIE whose aliased DIE encodes an     *)
(* incomplete array carries is_incomplete_array = TRUE, and a resolution   *)
(* of the typedef that is not answered from a memo map puts its entry in   *)
(* the primary map when it allowed an incomplete array and in the          *)
(* restricted map when it did not, whether the array was memoized before   *)
(* or made during the resolution.                                          *)
(***************************************************************************)
TypedefOfIncompleteArray(die) ==
    /\ dwarf_tag(die) = "typedef"
    /\ dwarf_type(die) # NoDie
    /\ EncodesIncompleteArray(dwarf_type(die))

C20_TypedefEntryFlagged ==
    /\ \A e \in map \cup cant_be_incomplete_array_map :
          TypedefOfIncompleteArray(e.key) => e.is_incomplete_array
    /\ (ret.err = "ok" /\ ~ret.hit /\ TypedefOfIncompleteArray(ret.die))
          => IF ret.can_be_incomplete_array
             THEN /\ dwarf_type_map_search(cant_be_incomplete_array_map,
                                           ret.die) = ret.cpre
                  /\ \E e \in dwarf_type_map_search(map, ret.die) :
                        e.type = ret.type
             ELSE /\ dwarf_type_map_search(map, ret.die) = ret.pre
                  /\ \E e \in dwarf_type_map_search(
                                   cant_be_incomplete_array_map, ret.die) :
                        e.type = ret.type

(***************************************************************************)
(* C21: a qualifier DIE resolves its DW_AT_type with the                   *)
(* can_be_incomplete_array it was called with, and its memo entry carries  *)
(* the is_incomplete_array of the type it qualifies; a qualified           *)
(* incomplete array resolved with can_be_incomplete_array = FALSE is an    *)
(* array of length 0.                                                      *)
(***************************************************************************)
C21_QualifierPassesFlag ==
    /\ \A i \in 1..(Len(stack) - 1) :
          (dwarf_tag(stack[i + 1].die) \in QualifierTags /\ stack[i + 1].called)
             => stack[i].can_be_incomplete_array
                   = stack[i + 1].can_be_incomplete_array
    /\ \A e \in map \cup cant_be_incomplete_array_map :
          (/\ dwarf_tag(e.key) \in QualifierTags
           /\ QualifiedDie(e.key) # NoDie
           /\ EncodesIncompleteArray(QualifiedDie(e.key)))
             => e.is_incomplete_array
    /\ \A r \in results :
          (/\ dwarf_tag(r.die) \in QualifierTags
           /\ ~r.can_be_incomplete_array
           /\ QualifiedDie(r.die) # NoDie
           /\ EncodesIncompleteArray(QualifiedDie(r.die)))
             => IsZeroLengthArray(types, r.type)

(***************************************************************************)
(* The references a dispatcher follows at once, read off the DIEs alone.   *)
(***************************************************************************)
\* A bit field whose offset is computed from the size of its type.
SizedFromType(m, die) ==
    /\ m.bit_offset.form # "absent"
    /\ m.byte_size.form = "absent"
    /\ DieLittleEndian(die)

\* Frame `child` is the call frame `parent` made for the DIE of its
\* DW_AT_type or of a declaration's definition or, for a compound that
\* parses its members, for the type of a bit field sized from its type.
EagerEdge(parent, child) ==
    IF ParsesMembers(parent.die)
    THEN /\ parent.n \in 1..Len(MemberChildren(parent.die))
         /\ child.die = MemberChildren(parent.die)[parent.n].type
         /\ SizedFromType(MemberChildren(parent.die)[parent.n], parent.die)
    ELSE IF SearchesComplete(parent.die)
    THEN child.die \in {IndexedDies[i] : i \in 1..Len(IndexedDies)}
    ELSE child.die = dwarf_type(parent.die)

(***************************************************************************)
(* C22 as stated: while a DIE is dispatched, no call for the same DIE is   *)
(* dispatched above it.                                                    *)
(***************************************************************************)
C22_AsStated ==
    \A i, j \in 1..Len(stack) :
        (i < j /\ stack[i].pc = "dispatch" /\ stack[j].pc = "dispatch")
            => stack[i].die # stack[j].die

(***************************************************************************)
(* C22: a call made while a DIE is dispatched is for its DW_AT_type, for   *)
(* the definition of a declaration or for the type of a bit field that has *)
(* DW_AT_bit_offset and no DW_AT_byte_size in a little-endian file, never  *)
(* for the type of another member or of a parameter; a compound or         *)
(* function descriptor is made with exactly those bit fields evaluated and *)
(* every other member and parameter held as a thunk, and a thunk is        *)
(* evaluated with no call in progress, its holder in a memo map.           *)
(***************************************************************************)
C22_HeadEdge ==
    /\ Len(stack) >= 2 => EagerEdge(stack[2], stack[1])
    /\ holder # NoHolder => Visible(holder[1])

C22_ThunksHeld ==
    /\ [](C22_HeadEdge)
    /\ [][\A t \in types' :
             (t.handle \notin Handles(types)
              /\ t.descriptor.kind \in {"struct", "union", "class", "function"})
                => \A i \in 1..Len(t.descriptor.members) :
                      t.descriptor.members[i].thunk
                         = ~(/\ t.descriptor.kind # "function"
                             /\ SizedFromType(
                                    MemberChildren(Head(stack).die)[i],
                                    Head(stack).die))]_vars

\* A structure type was made with the bit fields sized from their types
\* evaluated and its other member held as a thunk, each bit field's type
\* having been resolved inside the dispatch of the structure.
C22_BitFieldsEvaluated ==
    \E t \in types :
        /\ t.descriptor.kind = "struct"
        /\ Len(t.descriptor.members) = Len(MemberChildren(DieFlags))
        /\ \A i \in 1..Len(t.descriptor.members) :
              t.descriptor.members[i].thunk
                 = ~SizedFromType(MemberChildren(DieFlags)[i], DieFlags)
        /\ \E i, k \in 1..Len(t.descriptor.members) :
              t.descriptor.members[i].thunk /\ ~t.descriptor.members[k].thunk
        /\ \E r \in results : r.die = DieFlags /\ r.type = t.handle

(***************************************************************************)
(* C23: every resolve call returns: again and again no call is in         *)
(* progress, the calls never nest deeper than the limit plus the call it   *)
(* refuses, and a DIE on a cycle of DW_AT_type references of typedef,      *)
(* pointer, qualifier, array or bit-field member DIEs returns the          *)
(* recursion error.                                                        *)
(***************************************************************************)
EagerCycleDies == {DieTdA, DieTdB, DiePtrSelf, DieCPtr, DieArrSelf, DieBits}

C23_Returns ==
    /\ []<>(stack = <<>>)
    /\ [](Len(stack) <= MaxDepth + 1)
    /\ []((ret.err # "none" /\ ret.die \in EagerCycleDies)
            => ret.err = "recursion")

\* The resolution of a typedef of a typedef of itself has returned the
\* recursion error to the caller outside.
C23_CycleReturned ==
    /\ stack = <<>>
    /\ ret.die = DieTdA
    /\ ret.err = "recursion"
    /\ depth = 0

(***************************************************************************)
(* C24: a function DIE with a DW_TAG_formal_parameter child after a        *)
(* DW_TAG_unspecified_parameters child, or with a second                   *)
(* DW_TAG_unspecified_parameters child, fails with the malformed-DWARF     *)
(* error and gets no type; a function type, when it is made, has one thunk *)
(* with can_be_incomplete_array = TRUE per DW_TAG_formal_parameter child,  *)
(* in child order, and is variadic exactly when the DIE has a              *)
(* DW_TAG_unspecified_parameters child.                                    *)
(***************************************************************************)
FormalParameters(die) ==
    SelectSeq(DieInfo(die).members, LAMBDA c : c.tag = "formal_parameter")

MalformedParameters(die) ==
    \E i, j \in 1..Len(DieInfo(die).members) :
        /\ i < j
        /\ DieInfo(die).members[i].tag = "unspecified_parameters"
        /\ DieInfo(die).members[j].tag
              \in {"formal_parameter", "unspecified_parameters"}

C24_ParameterOrder ==
    /\ []((/\ ret.err # "none"
           /\ dwarf_tag(ret.die) \in FunctionTags
           /\ MalformedParameters(ret.die))
             => ret.err = "other")
    /\ [](\A r \in results :
            dwarf_tag(r.die) \in FunctionTags
               => /\ ~MalformedParameters(r.die)
                  /\ TypeOf(types, r.type).kind = "function"
                  /\ Len(TypeOf(types, r.type).members)
                        = Len(FormalParameters(r.die))
                  /\ \A i \in 1..Len(FormalParameters(r.die)) :
                        /\ TypeOf(types, r.type).members[i].name
                              = FormalParameters(r.die)[i].name
                        /\ TypeOf(types, r.type).members[i].die
                              = FormalParameters(r.die)[i].type
                        /\ TypeOf(types, r.type).members[i]
                              .can_be_incomplete_array
                  /\ TypeOf(types, r.type).is_variadic
                        = (\E i \in 1..Len(DieInfo(r.die).members) :
                              DieInfo(r.die).members[i].tag
                                 = "unspecified_parameters"))
    /\ [][\A t \in types' :
             (t.handle \notin Handles(types) /\ t.descriptor.kind = "function")
                => \A i \in 1..Len(t.descriptor.members) :
                      t.descriptor.members[i].thunk]_vars

\* Both errors have been returned and the variadic function type of two
\* parameters has been made.
C24_FunctionsResolved ==
    /\ stack = <<>>
    /\ ret.die \in {DieFnOrder, DieFnTwice}
    /\ ret.err = "other"
    /\ \E r \in results :
          /\ r.die = DieFn
          /\ Len(TypeOf(types, r.type).members) = 2
          /\ TypeOf(types, r.type).is_variadic
    /\ \E r \in results :
          /\ r.die = DieFnSkip
          /\ Len(TypeOf(types, r.type).members) = 1
          /\ ~TypeOf(types, r.type).is_variadic

(***************************************************************************)
(* C25: every entry of the restricted map has is_incomplete_array = TRUE,  *)
(* has an array DIE or a typedef DIE as its key and holds a type that is,  *)
(* under its typedefs, a complete array of length 0; the restricted map    *)
(* gets an entry only from the call in progress for the entry's DIE, a     *)
(* call made with can_be_incomplete_array = FALSE.                         *)
(***************************************************************************)
C25_RestrictedEntries ==
    /\ [](\A e \in cant_be_incomplete_array_map :
            /\ e.is_incomplete_array
            /\ dwarf_tag(e.key) \in {"array_type", "typedef"}
            /\ IsZeroLengthArray(types, e.type)
            /\ ~IsIncompleteArray(types, e.type))
    /\ [][\A e \in cant_be_incomplete_array_map'
                     \ cant_be_incomplete_array_map :
             /\ stack # <<>>
             /\ Head(stack).die = e.key
             /\ ~Head(stack).can_be_incomplete_array]_vars

\* The restricted map holds an entry of an array DIE and one of a typedef
\* DIE.
C25_RestrictedFilled ==
    /\ \E e \in cant_be_incomplete_array_map : dwarf_tag(e.key) = "array_type"
    /\ \E e \in cant_be_incomplete_array_map : dwarf_tag(e.key) = "typedef"

(***************************************************************************)
(* C26: the primary map and the restricted map each hold at most one entry *)
(* per DIE key.                                                            *)
(***************************************************************************)
C26_OneEntryPerKey ==
    /\ \A d \in {e.key : e \in map} :
          Cardinality(dwarf_type_map_search(map, d)) = 1
    /\ \A d \in {e.key : e \in cant_be_incomplete_array_map} :
          Cardinality(dwarf_type_map_search(cant_be_incomplete_array_map, d))
             = 1

====
